---------------------------- MODULE Spec2Model ----------------------------
(***************************************************************************)
(* A model of scnlib's input cursor (detail::range_wrapper), of the result *)
(* dispatch (detail::wrap / detail::wrap_result) and of the scan entry     *)
(* point (detail::scan_boilerplate).                                       *)
(*                                                                         *)
(* A caller owns one input object `data`.  It may wrap it into a cursor    *)
(* `cur` and drive the cursor by hand (advance, advance_to,                *)
(* set_rollback_point, reset_to_rollback_point, rewrap), and it may call   *)
(* scan on the input object or on the cursor, which yields a result.       *)
(*                                                                         *)
(* Iterators are offsets from the start of the underlying range: 0 is      *)
(* ranges::begin, Len(rng) is ranges::end.  C++ types are records of the   *)
(* attributes overload resolution looks at.                                *)
(***************************************************************************)
EXTENDS Integers, Sequences, FiniteSets, TLC

(***************************************************************************)
(* Bounds of the model.                                                    *)
(***************************************************************************)
\* longest input text
MaxLen == 3
\* most arguments (placeholders) of one scan call
MaxArgs == 2
\* largest putback capacity of a stream source
MaxCap == 1
\* widest integer type of the numeric conversion, in bits
MaxBits == 4
MaxSize == 2
\* most locale references alive or destroyed in one run
MaxRefs == 3
\* most process-locale copies allocated in one run
MaxLocales == 3

(***************************************************************************)
(* Characters and texts.                                                   *)
(***************************************************************************)
Digits == {"1", "2"}
Spaces == {" "}
Chars == Digits \cup Spaces \cup {"a"}

Texts == UNION {[1..n -> Chars] : n \in 0..MaxLen}

Max(a, b) == IF a >= b THEN a ELSE b

\* the characters of s from offset i (0-based) to its end
Suffix(s, i) == SubSeq(s, i + 1, Len(s))

(***************************************************************************)
(* scn::error codes used by the modelled code ("good" is error{}).         *)
(***************************************************************************)
Good == "good"
EndOfRange == "end_of_range"
InvalidScannedValue == "invalid_scanned_value"
UnrecoverableSourceError == "unrecoverable_source_error"
ValueOutOfRange == "value_out_of_range"
ExceptionsRequired == "exceptions_required"
InvalidEncoding == "invalid_encoding"
InvalidOperation == "invalid_operation"

(***************************************************************************)
(* Source kinds a caller can hand in, with the traits the code reads.      *)
(*   char_array  a string literal / character array                        *)
(*   std_string  std::basic_string                                         *)
(*   container   any other range owning its characters (wrapped by        *)
(*               reference)                                                *)
(*   stream      a forward source that can step back only over its         *)
(*               putback buffer (wrapped by reference)                     *)
(***************************************************************************)
MemoryKinds == {"char_array", "std_string", "container"}
Kinds == MemoryKinds \cup {"stream"}

\* is_caching_range_impl is std::false_type for every range type of the
\* modelled sources.
is_caching_range(base) == FALSE

\* ranges::sized_range: advance_to and size() exist
sized_range(base) == base # "stream"

\* copying an object of this type copies its characters (a view copies none)
OwnsChars(base) == base \in {"std_string", "container", "stream"}

(***************************************************************************)
(* range_wrapper<Range>.                                                   *)
(*   base    remove_cvref_t<Range>                                         *)
(*   isref   std::is_reference<Range>: storage is a pointer to the range   *)
(*   rng     the characters of the underlying range                        *)
(*   alias   the characters read are the caller's own storage              *)
(*   m_begin, m_read   as in the class                                     *)
(*   cap, hi the source's putback capacity and, for a source that is not   *)
(*           held in memory, the furthest offset it has been read to       *)
(*           (state of the underlying source)                              *)
(***************************************************************************)
NoCursor == [base |-> "none"]

\* range_wrapper(R&& r): m_range(r), m_begin(ranges::begin(m_range.get()))
MakeWrapper(base, isref, rng, alias, cap) ==
    [base |-> base, isref |-> isref, rng |-> rng, alias |-> alias,
     m_begin |-> 0, m_read |-> 0, cap |-> cap, hi |-> 0]

End(c) == Len(c.rng)
Remaining(c) == Suffix(c.rng, c.m_begin)

\* the source keeps only its putback buffer
Buffered(base) == base = "stream"

\* ranges::advance(m_begin, n) on the underlying iterator
IterAdvance(c, n) ==
    [c EXCEPT !.m_begin = @ + n,
              !.hi = IF Buffered(c.base) THEN Max(@, c.m_begin + n) ELSE @]

\* --m_begin on the underlying iterator: a source that cannot step back
\* (nothing before the start, or the putback buffer is used up) yields its
\* end sentinel.
IterPrev(c) ==
    IF c.m_begin > 0 /\ c.m_begin - 1 >= c.hi - c.cap
    THEN c.m_begin - 1
    ELSE End(c)

advance(c, n) ==
    LET counted == [c EXCEPT !.m_read = @ + n]
    IN  IF ~is_caching_range(c.base) THEN IterAdvance(counted, n) ELSE counted

advance_to(c, it) ==
    LET diff == it - c.m_begin
    IN  [c EXCEPT !.m_read = @ + diff, !.m_begin = it]

set_rollback_point_noop(c) == c
set_rollback_point(c) == [c EXCEPT !.m_read = 0]

\* for (; m_read != 0; --m_read) { --m_begin; if (m_begin == end()) return error }
RECURSIVE ResetLoop(_)
ResetLoop(c) ==
    IF c.m_read = 0
    THEN [err |-> Good, range |-> c]
    ELSE LET it == IterPrev(c)
         IN  IF it = End(c)
             THEN [err |-> UnrecoverableSourceError,
                   range |-> [c EXCEPT !.m_begin = it]]
             ELSE ResetLoop([c EXCEPT !.m_begin = it, !.m_read = @ - 1])

\* variants of the loop: one step too few; no look at the sentinel
reset_one_short(c) ==
    IF c.m_read = 0 THEN [err |-> Good, range |-> c]
    ELSE [err |-> Good, range |-> [c EXCEPT !.m_begin = @ - (c.m_read - 1), !.m_read = 0]]
reset_ignore_sentinel(c) ==
    [err |-> Good, range |-> [c EXCEPT !.m_begin = @ - c.m_read, !.m_read = 0]]
reset_to_rollback_point(c) == ResetLoop(c)


(***************************************************************************)
(* Construction, copy and move of a range_wrapper.                         *)
(***************************************************************************)
\* characters copied when the storage of c is copy-constructed
StorageCopyCost(c) == IF ~c.isref /\ OwnsChars(c.base) THEN Len(c.rng) ELSE 0

\* range_wrapper(const range_wrapper& o)
range_wrapper_copy(o) ==
    LET n == o.m_begin
        fresh == [o EXCEPT !.m_begin = 0, !.m_read = 0,
                           !.alias = IF StorageCopyCost(o) > 0 THEN FALSE ELSE @]
    IN  [IterAdvance(fresh, n) EXCEPT !.m_read = o.m_read]

range_wrapper_move_raw(o) == [o EXCEPT !.m_begin = 0]
\* range_wrapper(range_wrapper&& o)
range_wrapper_move(o) ==
    LET n == o.m_begin
        fresh == [o EXCEPT !.m_begin = 0, !.m_read = 0]
    IN  [IterAdvance(fresh, n) EXCEPT !.m_read = o.m_read]

range_wrapper_copy_assign_no_count(this, o) ==
    LET n == o.m_begin
        fresh == [o EXCEPT !.m_begin = 0, !.m_read = 0,
                           !.alias = IF StorageCopyCost(o) > 0 THEN FALSE ELSE @]
    IN  [IterAdvance(fresh, n) EXCEPT !.m_read = this.m_read]
\* range_wrapper& operator=(const range_wrapper& o)
range_wrapper_copy_assign(this, o) ==
    LET n == o.m_begin
        fresh == [o EXCEPT !.m_begin = 0, !.m_read = 0,
                           !.alias = IF StorageCopyCost(o) > 0 THEN FALSE ELSE @]
    IN  [IterAdvance(fresh, n) EXCEPT !.m_read = o.m_read]

\* range_wrapper& operator=(range_wrapper&& o): what becomes of *this; its
\* own reset_to_rollback_point() comes first and its error is dropped
range_wrapper_move_assign(this, o) ==
    LET was == reset_to_rollback_point(this).range
        n == o.m_begin
        fresh == [o EXCEPT !.m_begin = 0, !.m_read = 0]
    IN  [IterAdvance(fresh, n) EXCEPT !.m_read = o.m_read]

(***************************************************************************)
(* rewrap<R>().  toRef says whether R is a reference type.                 *)
(***************************************************************************)
\* characters copied by rewrap<R>() when R is the wrapped type
RewrapSameCost(c, toRef) == IF ~toRef /\ OwnsChars(c.base) THEN Len(c.rng) ELSE 0

rewrap_same_no_advance(c, toRef) ==
    set_rollback_point(
        [MakeWrapper(c.base, toRef, c.rng,
                     IF RewrapSameCost(c, toRef) > 0 THEN FALSE ELSE c.alias,
                     c.cap) EXCEPT !.hi = c.hi])
\* rewrap() with remove_cvref_t<Range> == remove_cvref_t<R>, const& and &&
rewrap_same(c, toRef) ==
    LET n == c.m_begin
        r == [MakeWrapper(c.base, toRef, c.rng,
                          IF RewrapSameCost(c, toRef) > 0 THEN FALSE ELSE c.alias,
                          c.cap) EXCEPT !.hi = c.hi]
    IN  set_rollback_point(advance(r, n))

\* characters copied by reconstruct(reconstruct_tag<R>, begin, end)
ReconstructCost(c, R) == IF OwnsChars(R) THEN Len(Remaining(c)) ELSE 0

reconstruct_from_start(c, R) ==
    MakeWrapper(R, FALSE, c.rng, FALSE, Len(c.rng))
\* rewrap() with another type R: {reconstruct(reconstruct_tag<R>{}, begin(), end())}
rewrap_other(c, R) ==
    MakeWrapper(R, FALSE, Remaining(c),
                IF OwnsChars(R) THEN FALSE ELSE c.alias,
                Len(Remaining(c)))

rewrap(c, R, toRef) ==
    IF c.base = R THEN rewrap_same(c, toRef) ELSE rewrap_other(c, R)

RewrapCost(c, R, toRef) ==
    IF c.base = R THEN RewrapSameCost(c, toRef) ELSE ReconstructCost(c, R)

(***************************************************************************)
(* detail::wrap.  The caller's input is a record                           *)
(*   [kind, content, cap]; a wrapped cursor is handed in as itself.        *)
(***************************************************************************)
\* a wrap that stores the range itself
wrap_range_owning(d) ==
    MakeWrapper(d.kind, FALSE, d.content, FALSE, d.cap)
\* _wrap::fn::impl, priority_tag<1> (arrays, std::basic_string) and
\* priority_tag<0> (any other range: range_wrapper<Range&>)
wrap_range(d) ==
    IF d.kind \in {"char_array", "std_string"}
    THEN MakeWrapper("string_view", FALSE, d.content, TRUE, Len(d.content))
    ELSE MakeWrapper(d.kind, TRUE, d.content, TRUE, d.cap)

\* _wrap::fn::impl, priority_tag<3>: return r
wrap_wrapper(r) == range_wrapper_copy(r)

(***************************************************************************)
(* detail::wrap_result.                                                    *)
(*                                                                         *)
(* range_tag<InputRange> is the record                                     *)
(*   cat   "wrapper" (a range_wrapper), "array" (CharT (&)[N]) or "range"  *)
(*   pass  "lref" (InputRange is T&), "clref" (const T&), "value" (T)      *)
(*   base  remove_cvref_t of the range (of the wrapped range, for a        *)
(*         wrapper)                                                        *)
(*   wref  for a wrapper: its Range is an lvalue reference                 *)
(***************************************************************************)
Passes == {"lref", "clref", "value"}
RefPasses == {"lref", "clref"}

RangeTag(cat, pass, base, wref) ==
    [cat |-> cat, pass |-> pass, base |-> base, wref |-> wref]

\* the impl overloads, in source order
Overloads ==
    {"wrapper_lref", "wrapper_clref", "wrapper_value", "literal",
     "ref_nonref", "ref_ref", "value_nonref", "value_ref"}

\* the priority_tag<N> parameter of each overload
Priority(o) ==
    CASE o \in {"wrapper_lref", "wrapper_clref", "wrapper_value"} -> 3
      [] o = "literal" -> 2
      [] o \in {"ref_nonref", "ref_ref"} -> 1
      [] OTHER -> 0

SameWrapperByValueOnly(tag, c, pass) ==
    /\ pass = "value"
    /\ tag.cat = "wrapper" /\ tag.pass = pass
    /\ tag.base = c.base /\ tag.wref = c.isref
    /\ ~c.isref
\* range_tag<[const] range_wrapper<Range>[&]> with range_wrapper<Range>&&,
\* enabled when Range is not an lvalue reference
SameWrapper(tag, c, pass) ==
    /\ tag.cat = "wrapper" /\ tag.pass = pass
    /\ tag.base = c.base /\ tag.wref = c.isref
    /\ ~c.isref

\* template argument deduction and enable_if of each overload
Viable(o, tag, c) ==
    CASE o = "wrapper_lref" -> SameWrapper(tag, c, "lref")
      [] o = "wrapper_clref" -> SameWrapper(tag, c, "clref")
      [] o = "wrapper_value" -> SameWrapper(tag, c, "value")
      [] o = "literal" ->
            tag.cat = "array" /\ tag.pass \in RefPasses
            /\ c.base = "string_view" /\ ~c.isref
      [] o = "ref_nonref" -> tag.pass \in RefPasses /\ ~c.isref
      [] o = "ref_ref" -> tag.pass \in RefPasses /\ c.isref
      [] o = "value_nonref" -> ~c.isref
      [] o = "value_ref" -> c.isref

ViableSet(tag, c) == {o \in Overloads : Viable(o, tag, c)}

\* the candidates overload resolution cannot tell apart: viable, and no
\* viable overload takes a more derived priority_tag
BestOverloads(tag, c) ==
    {o \in ViableSet(tag, c) :
        \A p \in ViableSet(tag, c) : Priority(p) <= Priority(o)}

SelectLowestPriority(tag, c) ==
    CHOOSE o \in ViableSet(tag, c) :
        \A p \in ViableSet(tag, c) : Priority(o) <= Priority(p)
\* impl(std::move(e), tag, std::move(range), priority_tag<3>{})
SelectOverload(tag, c) == CHOOSE o \in BestOverloads(tag, c) : TRUE

\* the type InputRange of a tag, as a rewrap target
TagBase(tag) == IF tag.cat = "wrapper" THEN "range_wrapper" ELSE tag.base

\* {std::move(e), std::move(range)}: the result's m_range is move-constructed
PassThrough(variant, o, e, c) ==
    [variant |-> variant, overload |-> o, err |-> e,
     range |-> range_wrapper_move(c), copied |-> 0]

\* {std::move(e), std::move(range).template rewrap<R>()}
Rewrapped(o, e, c, R, toRef) ==
    [variant |-> "reconstructed", overload |-> o, err |-> e,
     range |-> range_wrapper_move(rewrap(c, R, toRef)),
     copied |-> RewrapCost(c, R, toRef)]

\* the body of each overload
BuildResult(o, e, tag, c) ==
    CASE o \in {"wrapper_lref", "wrapper_clref", "wrapper_value", "literal"} ->
            PassThrough("reconstructed", o, e, c)
      [] o = "ref_nonref" -> PassThrough("non_reconstructed", o, e, c)
      [] o \in {"ref_ref", "value_ref"} -> Rewrapped(o, e, c, c.base, FALSE)
      [] o = "value_nonref" ->
            Rewrapped(o, e, c, TagBase(tag), tag.pass \in RefPasses)

wrap_result(e, tag, c) == BuildResult(SelectOverload(tag, c), e, tag, c)

(***************************************************************************)
(* The argument scanners and vscan, which scan_boilerplate calls.  Every   *)
(* argument is an integer with the default format.                         *)
(***************************************************************************)
DigitVal(ch) == IF ch = "1" THEN 1 ELSE 2

\* the value of a text of decimal digits
RECURSIVE ParseDec(_)
ParseDec(s) ==
    IF s = <<>> THEN 0
    ELSE 10 * ParseDec(SubSeq(s, 1, Len(s) - 1)) + DigitVal(s[Len(s)])

\* how many characters from offset i on satisfy the set P
RECURSIVE RunLength(_, _, _)
RunLength(s, i, P) ==
    IF i < Len(s) /\ s[i + 1] \in P THEN 1 + RunLength(s, i + 1, P) ELSE 0

\* skip_range_whitespace: read characters while they are whitespace
SkipWs(c) ==
    LET n == RunLength(c.rng, c.m_begin, Spaces)
    IN  IF n = 0 THEN c ELSE advance(c, n)

\* the integer scanner: skips whitespace, reads the word, parses its digits
\* and puts back what follows them
scan_int(c) ==
    LET c1 == SkipWs(c)
        word == RunLength(c1.rng, c1.m_begin, Chars \ Spaces)
        digits == RunLength(c1.rng, c1.m_begin, Digits)
    IN  IF c1.m_begin = End(c1)
        THEN [err |-> EndOfRange, val |-> 0, range |-> c1]
        ELSE IF digits = 0
        THEN [err |-> InvalidScannedValue, val |-> 0,
              range |-> advance(c1, word)]
        ELSE [err |-> Good,
              val |-> ParseDec(SubSeq(c1.rng, c1.m_begin + 1, c1.m_begin + digits)),
              range |-> advance(c1, digits)]

\* vscan: the arguments in placeholder order; a failed argument rolls the
\* cursor back to the rollback point, a scanned one commits
RECURSIVE vscan(_, _, _, _)
vscan(c, n, vals, i) ==
    IF i > n
    THEN [err |-> Good, range |-> c, vals |-> vals, failed |-> 0]
    ELSE LET r == scan_int(c)
         IN  IF r.err # Good
             THEN LET rb == reset_to_rollback_point(r.range)
                  IN  [err |-> IF rb.err # Good THEN rb.err ELSE r.err,
                       range |-> rb.range, vals |-> vals, failed |-> i]
             ELSE vscan(set_rollback_point(r.range), n,
                        [vals EXCEPT ![i] = r.val], i + 1)

(***************************************************************************)
(* detail::scan_boilerplate (scan, scan_default, scanf).                   *)
(* wrapped is detail::wrap(r), vals the arguments before the call.         *)
(***************************************************************************)
scan_boilerplate_stale_range(tag, wrapped, n, vals) ==
    LET v == vscan(wrapped, n, vals, 1)
    IN  [result |-> wrap_result(v.err, tag, wrapped),
         ctx |-> v.range, vals |-> v.vals, failed |-> v.failed]
scan_boilerplate(tag, wrapped, n, vals) ==
    LET v == vscan(wrapped, n, vals, 1)
    IN  [result |-> wrap_result(v.err, tag, v.range),
         ctx |-> v.range, vals |-> v.vals, failed |-> v.failed]

(***************************************************************************)
(* The parse contexts vscan is driven by, and the entry points that choose *)
(* them.  A format string is a sequence of the characters "{", "}", " ".   *)
(***************************************************************************)
\* the caller's arguments before a call
Fresh(n) == [i \in 1..n |-> 0]

\* n "{}"s separated by single spaces
RECURSIVE DefaultFormat(_)
DefaultFormat(n) ==
    IF n <= 1 THEN <<"{", "}">>
    ELSE DefaultFormat(n - 1) \o <<" ", "{", "}">>

\* basic_parse_context(f, ctx): the arguments the format asks for, one for
\* each "{}" met while the format is read from left to right
RECURSIVE basic_parse_context(_)
basic_parse_context(f) ==
    IF Len(f) < 2 THEN 0
    ELSE IF f[1] = "{" /\ f[2] = "}"
    THEN 1 + basic_parse_context(Suffix(f, 2))
    ELSE basic_parse_context(Suffix(f, 1))

\* basic_empty_parse_context(args, ctx): args arguments, no format read
basic_empty_parse_context(n) == n

\* scan(r, f, a...)
scan(tag, wrapped, f, vals) ==
    scan_boilerplate(tag, wrapped, basic_parse_context(f), vals)

scan_default_single(tag, wrapped, n, vals) ==
    scan_boilerplate(tag, wrapped, basic_empty_parse_context(1), vals)
\* scan_default(r, a...): static_cast<int>(sizeof...(Args)) for the format
scan_default(tag, wrapped, n, vals) ==
    scan_boilerplate(tag, wrapped, basic_empty_parse_context(n), vals)

\* expected<T>: an error code and, when there is none, the value
Expected(err, value) ==
    [err |-> err, vals |-> IF err # Good THEN <<>> ELSE <<value>>]

scan_value_keep_value(tag, wrapped) ==
    LET v == vscan(wrapped, basic_empty_parse_context(1), Fresh(1), 1)
    IN  [result |-> wrap_result(v.err, tag, v.range),
         ctx |-> v.range, vals |-> <<v.vals[1]>>, failed |-> v.failed]
\* scan_value<T>(r): the result's error type is expected<T>
scan_value(tag, wrapped) ==
    LET v == vscan(wrapped, basic_empty_parse_context(1), Fresh(1), 1)
        e == Expected(v.err, v.vals[1])
    IN  [result |-> wrap_result(e.err, tag, v.range),
         ctx |-> v.range, vals |-> e.vals, failed |-> v.failed]

(***************************************************************************)
(* Localized number reading (locale.cpp).  An integer type T is the record *)
(* [signed, bits]; a buffer is a sequence of the characters "0".."9", "a"  *)
(* and "-".                                                                *)
(***************************************************************************)
RECURSIVE Pow2(_)
Pow2(n) == IF n = 0 THEN 1 ELSE 2 * Pow2(n - 1)

IntTypes == {[signed |-> sg, bits |-> b] : sg \in BOOLEAN, b \in {MaxBits - 1, MaxBits}}

\* std::numeric_limits<T>::max() and min()
numeric_limits_max(T) ==
    IF T.signed THEN Pow2(T.bits - 1) - 1 ELSE Pow2(T.bits) - 1
numeric_limits_min(T) ==
    IF T.signed THEN 0 - Pow2(T.bits - 1) ELSE 0

DigitChars == <<"0", "1", "2", "3", "4", "5", "6", "7", "8", "9", "a">>
DigitOf(ch) == (CHOOSE d \in 1..Len(DigitChars) : DigitChars[d] = ch) - 1

\* the characters std::num_get accepts as digits after std::setbase(base)
ValidDigits(base) ==
    {DigitChars[d] : d \in {d \in 1..Len(DigitChars) : d - 1 < base}}

\* the text of n in base 10
RECURSIVE DecimalNat(_)
DecimalNat(n) ==
    IF n < 10 THEN <<DigitChars[n + 1]>>
    ELSE DecimalNat(n \div 10) \o <<DigitChars[(n % 10) + 1]>>
Decimal(n) == IF n < 0 THEN <<"-">> \o DecimalNat(0 - n) ELSE DecimalNat(n)

\* the value of a text of digits in a base
RECURSIVE ParseNat(_, _)
ParseNat(s, base) ==
    IF s = <<>> THEN 0
    ELSE base * ParseNat(SubSeq(s, 1, Len(s) - 1), base) + DigitOf(s[Len(s)])

\* T tmp; ss >> tmp: what std::num_get stores and whether it sets failbit.
\* A field without digits stores 0; a value beyond the type stores the limit
\* on its side.  For a negative field and an unsigned T the standard
\* libraries differ (the negated value, or a failure storing max): both
\* outcomes are kept.
istream_extract(buf, base, T) ==
    LET neg == Len(buf) > 0 /\ buf[1] = "-"
        start == IF neg THEN 1 ELSE 0
        d == RunLength(buf, start, ValidDigits(base))
        mag == ParseNat(SubSeq(buf, start + 1, start + d), base)
        v == IF neg THEN 0 - mag ELSE mag
        max == numeric_limits_max(T)
        min == numeric_limits_min(T)
        Out(f, t) == [fail |-> f, tmp |-> t,
                      pos |-> IF f THEN 0 ELSE start + d]
    IN  IF d = 0 THEN {Out(TRUE, 0)}
        ELSE IF mag > max /\ ~(T.signed /\ neg) THEN {Out(TRUE, max)}
        ELSE IF T.signed
        THEN IF v < min THEN {Out(TRUE, min)} ELSE {Out(FALSE, v)}
        ELSE IF ~neg \/ mag = 0 THEN {Out(FALSE, mag)}
        ELSE {Out(FALSE, max + 1 - mag), Out(TRUE, max)}

\* read_num_check_range(T val), integral T
read_num_check_range(T, val) ==
    IF val = numeric_limits_max(T)
    THEN [err |-> ValueOutOfRange, class |-> "overflow"]
    ELSE IF val = numeric_limits_min(T)
    THEN [err |-> ValueOutOfRange, class |-> "underflow"]
    ELSE [err |-> InvalidScannedValue, class |-> "none"]

\* what do_read_num returns: an error, or the number of characters read
NumResult(e, pos) ==
    [variant |-> "read_num", err |-> e.err, class |-> e.class, pos |-> pos]

do_read_num_parse_anyway(val, T, o, has_exceptions) ==
    IF o.fail
    THEN [ret |-> NumResult(read_num_check_range(T, o.tmp), 0), val |-> val]
    ELSE [ret |-> NumResult([err |-> Good, class |-> "none"], o.pos), val |-> o.tmp]
\* do_read_num(val, loc, buf, base), o being what ss >> tmp did;
\* has_exceptions is SCN_HAS_EXCEPTIONS.  A string stream is never bad() and
\* throws nothing while its exception mask is empty.
do_read_num(val, T, o, has_exceptions) ==
    IF ~has_exceptions
    THEN [ret |-> NumResult([err |-> ExceptionsRequired, class |-> "none"], 0),
          val |-> val]
    ELSE IF o.fail
    THEN [ret |-> NumResult(read_num_check_range(T, o.tmp), 0), val |-> val]
    ELSE [ret |-> NumResult([err |-> Good, class |-> "none"], o.pos),
          val |-> o.tmp]

(***************************************************************************)
(* Character classification (locale.cpp).  A narrow unit is a sequence of  *)
(* bytes: the ASCII bytes, "L" (the lead byte of a two-byte character) and *)
(* "C" (a continuation byte); "LC" is the wide character "e'".             *)
(***************************************************************************)
Ascii == {" ", "1", "a", ","}
WideChars == Ascii \cup {"e'"}

\* facet.in(state, from_begin, from_end, from_next, &to, (&to) + 1, to_next)
codecvt_in(unit) ==
    IF unit[1] \in Ascii THEN [result |-> "ok", to |-> unit[1]]
    ELSE IF unit[1] = "L" /\ Len(unit) = 1 THEN [result |-> "partial", to |-> ""]
    ELSE IF unit[1] = "L" /\ unit[2] = "C" THEN [result |-> "ok", to |-> "e'"]
    ELSE [result |-> "error", to |-> ""]

\* convert_to_wide_impl(locale, from_begin, from_end): expected<wchar_t>
convert_to_wide_impl(unit) ==
    LET r == codecvt_in(unit)
    IN  IF r.result # "ok"
        THEN [err |-> InvalidEncoding, value |-> ""]
        ELSE [err |-> Good, value |-> r.to]

Predicates ==
    {"space", "digit", "alnum", "alpha", "cntrl", "graph", "lower", "print",
     "punct", "upper", "xdigit", "blank"}

\* std::is##f(wch, locale)
std_is(f, w) ==
    CASE f \in {"space", "blank"} -> w = " "
      [] f = "digit" -> w = "1"
      [] f = "alnum" -> w \in {"1", "a", "e'"}
      [] f \in {"alpha", "lower"} -> w \in {"a", "e'"}
      [] f = "xdigit" -> w \in {"1", "a"}
      [] f = "graph" -> w \in {"1", "a", "e'", ","}
      [] f = "print" -> w \in WideChars
      [] f = "punct" -> w = ","
      [] OTHER -> FALSE

\* a bool: the predicates have no way to return an error
Answer(b) == [variant |-> "bool", err |-> Good, value |-> b]

\* do_is_space, do_is_digit, is_##f and is_blank on span<const char_type>;
\* wide is sizeof(CharT) != 1
is_f(f, wide, unit) ==
    IF ~wide
    THEN LET wch == convert_to_wide_impl(unit)
         IN  IF wch.err # Good THEN Answer(FALSE)
             ELSE Answer(std_is(f, wch.value))
    ELSE Answer(std_is(f, unit[1]))

(***************************************************************************)
(* getline with a view target.  A view is the record [bound, start, size]: *)
(* once bound it points at the characters start+1 .. start+size of the     *)
(* storage the cursor reads; NoView is the target before the call.         *)
(***************************************************************************)
\* is_contiguous_impl<Range>: ranges::contiguous_range<Range>
is_contiguous(base) == base \in {"string_view", "std_string", "char_array"}

NoView == [bound |-> FALSE, start |-> 0, size |-> 0]

\* read_until_space_zero_copy(r, pred, keep_final = true): on a contiguous
\* range a span from the current position through the first character that
\* satisfies pred (or to the end), which is consumed; on any other range an
\* empty span
read_until_space_zero_copy(c, until) ==
    IF ~is_contiguous(c.base)
    THEN [err |-> Good, start |-> c.m_begin, size |-> 0, range |-> c]
    ELSE IF c.m_begin = End(c)
    THEN [err |-> EndOfRange, start |-> c.m_begin, size |-> 0, range |-> c]
    ELSE LET n == RunLength(c.rng, c.m_begin, Chars \ {until})
             size == IF c.m_begin + n < End(c) THEN n + 1 ELSE n
         IN  [err |-> Good, start |-> c.m_begin, size |-> size,
              range |-> advance(c, size)]

getline_impl_keep_delimiter(c, str, until) ==
    LET s == read_until_space_zero_copy(c, until)
    IN  IF s.err # Good THEN [err |-> s.err, str |-> str, range |-> s.range]
        ELSE IF s.size # 0
        THEN [err |-> Good, range |-> s.range,
              str |-> [bound |-> TRUE, start |-> s.start, size |-> s.size]]
        ELSE [err |-> InvalidOperation, str |-> str, range |-> s.range]
getline_impl_bind_empty(c, str, until) ==
    LET s == read_until_space_zero_copy(c, until)
    IN  [err |-> Good, range |-> s.range,
         str |-> [bound |-> TRUE, start |-> s.start, size |-> s.size]]
\* getline_impl(r, basic_string_view<CharT>& str, until)
getline_impl(c, str, until) ==
    LET s == read_until_space_zero_copy(c, until)
    IN  IF s.err # Good THEN [err |-> s.err, str |-> str, range |-> s.range]
        ELSE IF s.size # 0
        THEN LET last_is_until == c.rng[s.start + s.size] = until
                 size == IF last_is_until THEN s.size - 1 ELSE s.size
             IN  [err |-> Good, range |-> s.range,
                  str |-> [bound |-> TRUE, start |-> s.start, size |-> size]]
        ELSE [err |-> InvalidOperation, str |-> str, range |-> s.range]

\* getline(r, str, until)
getline(tag, wrapped, str, until) ==
    LET g == getline_impl(wrapped, str, until)
    IN  [result |-> wrap_result(g.err, tag, g.range),
         ctx |-> g.range, vals |-> <<g.str>>, failed |-> 0]

(***************************************************************************)
(* ignore_until and ignore_until_n.                                        *)
(***************************************************************************)
\* read_until_space_ranged(r, begin, end, pred, keep_final_space) with an
\* output of n places: reads while the character does not satisfy pred and
\* the output has room; the character that satisfies pred is read only when
\* keep_final_space is set
read_until_space_ranged(c, n, until, keep_final_space) ==
    IF c.m_begin = End(c)
    THEN [err |-> EndOfRange, range |-> c]
    ELSE LET run == RunLength(c.rng, c.m_begin, Chars \ {until})
             k == IF run < n THEN run ELSE n
             found == k = run /\ c.m_begin + run < End(c)
             size == IF found /\ keep_final_space /\ k < n THEN k + 1 ELSE k
         IN  [err |-> Good, range |-> IF size = 0 THEN c ELSE advance(c, size)]

\* read_until_space(r, out, pred, keep_final_space): the output never fills
read_until_space(c, until, keep_final_space) ==
    read_until_space_ranged(c, Len(c.rng) + 1, until, keep_final_space)

ignore_until_impl(c, until) == read_until_space(c, until, FALSE)

ignore_until_n_impl(c, n, until) == read_until_space_ranged(c, n, until, FALSE)

\* what ignore_until and ignore_until_n do with the error of the impl
IgnoreResult(tag, i) ==
    LET e == IF i.err # Good THEN reset_to_rollback_point(i.range)
                             ELSE [err |-> Good, range |-> i.range]
        err == IF i.err # Good /\ e.err # Good THEN e.err ELSE i.err
    IN  [result |-> wrap_result(err, tag, e.range),
         ctx |-> i.range, vals |-> <<>>, failed |-> 0]

\* ignore_until(r, until)
ignore_until(tag, wrapped, until) ==
    IgnoreResult(tag, ignore_until_impl(wrapped, until))

\* ignore_until_n(r, n, until)
ignore_until_n(tag, wrapped, n, until) ==
    IgnoreResult(tag, ignore_until_n_impl(wrapped, n, until))

(***************************************************************************)
(* scan_list.  A container is [elems, max_size]; c.size() is Len(c.elems). *)
(***************************************************************************)
\* detail::zero_value<CharT>::value as the separator: none is expected
NoSeparator == "0"

\* span_list_wrapper::push_back, Container::push_back
push_back(c, val) == [c EXCEPT !.elems = Append(@, val)]

size_above_max(c) == Len(c.elems) > c.max_size
\* c.size() == c.max_size()
size_is_max(c) == Len(c.elems) = c.max_size

\* read_char(r): the next character, which is consumed
read_char(c) ==
    IF c.m_begin = End(c)
    THEN [err |-> EndOfRange, value |-> NoSeparator, range |-> c]
    ELSE [err |-> Good, value |-> c.rng[c.m_begin + 1], range |-> advance(c, 1)]

after_separator_strict(sep_ret, separator) ==
    IF sep_ret.err # Good
    THEN IF sep_ret.err = EndOfRange THEN "break" ELSE "return"
    ELSE IF sep_ret.value = separator THEN "continue" ELSE "return"
\* what the loop does once it has read the character after an element
after_separator(sep_ret, separator) ==
    IF sep_ret.err # Good
    THEN IF sep_ret.err = EndOfRange THEN "break" ELSE "return"
    ELSE IF sep_ret.value = separator THEN "continue" ELSE "break"

\* the while (true) loop of scan_list, from the state (ctx.range(), c, value)
RECURSIVE scan_list_loop(_, _, _, _)

\* if (separator != 0) { auto sep_ret = read_char(ctx.range()); ... }
scan_list_separator(sep_ret, step, c, value, separator) ==
    IF step = "continue"
    THEN scan_list_loop(sep_ret.range, c, value, separator)
    ELSE [err |-> IF step = "break" THEN Good
                  ELSE IF sep_ret.err # Good THEN sep_ret.err
                  ELSE InvalidScannedValue,
          range |-> sep_ret.range, c |-> c]

\* the loop after err = vscan(ctx, pctx, {args}), c as it was before it
scan_list_scanned(v, c, separator) ==
    IF v.err # Good
    THEN [err |-> IF v.err = EndOfRange THEN Good ELSE v.err,
          range |-> v.range, c |-> c]
    ELSE IF separator = NoSeparator
    THEN scan_list_loop(v.range, push_back(c, v.vals[1]), v.vals[1], separator)
    ELSE scan_list_separator(read_char(v.range),
                             after_separator(read_char(v.range), separator),
                             push_back(c, v.vals[1]), v.vals[1], separator)

scan_list_loop(range, c, value, separator) ==
    IF size_is_max(c)
    THEN [err |-> Good, range |-> range, c |-> c]
    ELSE scan_list_scanned(vscan(range, 1, <<value>>, 1), c, separator)

\* scan_list(r, c, separator)
scan_list(tag, wrapped, c, separator) ==
    LET l == scan_list_loop(wrapped, c, 0, separator)
    IN  [result |-> wrap_result(l.err, tag, l.range),
         ctx |-> l.range, vals |-> <<l.c>>, failed |-> 0]

(***************************************************************************)
(* The loops of scan_list, scan_list_until and the discarding read, one    *)
(* pass at a time.  A pass ends the loop (done) or hands the next pass its *)
(* state: ctx.range(), the container and value.                            *)
(***************************************************************************)
\* a call that takes no container
NoContainer == [elems |-> <<>>, max_size |-> 0]

Ended(err, range, c, value) ==
    [done |-> TRUE, err |-> err, range |-> range, c |-> c, value |-> value]

Again(range, c, value) ==
    [done |-> FALSE, err |-> Good, range |-> range, c |-> c, value |-> value]

\* break on end_of_range, return on any other error
BreakOrReturn(err) == IF err = EndOfRange THEN Good ELSE err

\* scan_list, from read_char on
scan_list_body_separator(sep_ret, step, c, value) ==
    IF step = "continue"
    THEN Again(sep_ret.range, c, value)
    ELSE Ended(IF step = "break" THEN Good ELSE sep_ret.err,
               sep_ret.range, c, value)

\* scan_list, from the test of vscan's error on
scan_list_body_scanned(v, c, value, separator) ==
    IF v.err # Good
    THEN Ended(BreakOrReturn(v.err), v.range, c, value)
    ELSE IF separator = NoSeparator
    THEN Again(v.range, push_back(c, v.vals[1]), v.vals[1])
    ELSE scan_list_body_separator(
             read_char(v.range),
             after_separator(read_char(v.range), separator),
             push_back(c, v.vals[1]), v.vals[1])

scan_list_body_spin(range, c, value, separator) ==
    IF size_is_max(c)
    THEN Again(range, c, value)
    ELSE scan_list_body_scanned(vscan(range, 1, <<value>>, 1), c, value,
                                separator)
\* one pass through while (true) of scan_list
scan_list_body(range, c, value, separator) ==
    IF size_is_max(c)
    THEN Ended(Good, range, c, value)
    ELSE scan_list_body_scanned(vscan(range, 1, <<value>>, 1), c, value,
                                separator)

\* putback_n(r, n): the last n characters read are unread
putback_n(c, n) == advance(c, 0 - n)

\* ctx.locale().is_space(ch)
is_space(ch) == ch \in Spaces

\* next.value() == ch.  An expected that holds an error has no value:
\* what value() yields then is not determined, and the test can go either
\* way.
value_is(next, ch) ==
    IF next.err = Good THEN {next.value = ch} ELSE BOOLEAN

\* scan_list_until, after the second read_char
scan_list_until_body_peeked(next, is_until, c, value) ==
    IF is_until
    THEN Ended(Good, next.range, c, value)
    ELSE Again(putback_n(next.range, 1), c, value)

\* if (next.value() == until) { break; }: the cursor the break leaves
break_at_until(next) == next.range

\* scan_list_until, after the first read_char: a set of outcomes
scan_list_until_body_next(next, c, value, until, separator) ==
    IF next.err # Good
    THEN {Ended(BreakOrReturn(next.err), next.range, c, value)}
    ELSE IF next.value = until
    THEN {Ended(Good, break_at_until(next), c, value)}
    ELSE IF \/ separator # NoSeparator /\ next.value # separator
            \/ separator = NoSeparator /\ ~is_space(next.value)
    THEN {Ended(Good, next.range, c, value)}
    ELSE {scan_list_until_body_peeked(read_char(next.range), b, c, value) :
             b \in value_is(read_char(next.range), until)}

\* scan_list_until, from the test of vscan's error on
scan_list_until_body_scanned(v, c, value, until, separator) ==
    IF v.err # Good
    THEN {Ended(BreakOrReturn(v.err), v.range, c, value)}
    ELSE scan_list_until_body_next(read_char(v.range),
                                   push_back(c, v.vals[1]), v.vals[1],
                                   until, separator)

\* one pass through while (true) of scan_list_until: a set of outcomes
scan_list_until_body(range, c, value, until, separator) ==
    IF size_is_max(c)
    THEN {Ended(Good, range, c, value)}
    ELSE scan_list_until_body_scanned(vscan(range, 1, <<value>>, 1), c, value,
                                      until, separator)

\* one pass through the loop of read_until_space_ranged called by
\* ignore_until_impl and ignore_until_n_impl (keep_final_space is false):
\* value counts the characters written to the ignore_iterator, n is how
\* many it takes
ignore_body(range, value, n, until) ==
    IF range.m_begin = End(range)
    THEN Ended(IF value = 0 THEN EndOfRange ELSE Good, range, NoContainer,
               value)
    ELSE IF value = n \/ range.rng[range.m_begin + 1] = until
    THEN Ended(Good, range, NoContainer, value)
    ELSE Again(advance(range, 1), NoContainer, value + 1)

(***************************************************************************)
(* The state.                                                              *)
(*   data        the caller's input object [kind, content, cap]            *)
(*   cur         the cursor the caller holds, or NoCursor                  *)
(*   checkpoint  the offset at which cur's rollback point was last set     *)
(*   last        the last operation on cur: its name and the error it      *)
(*               returned                                                  *)
(*   res         the result of the scan call, or NoResult                  *)
(*   call        the scan call: its range_tag, the cursor wrap(r) gave,    *)
(*               the cursor vscan left (ctx.range()), the argument count,  *)
(*               the index of the failed argument (0: none)                *)
(*   args        the caller's arguments after the call; for scan_value,    *)
(*               the value the returned expected<T> holds, if any          *)
(***************************************************************************)
VARIABLES data, cur, checkpoint, last, res, call, args

vars == <<data, cur, checkpoint, last, res, call, args>>

NoResult == [variant |-> "none"]
NoCall == [nargs |-> 0]
NoOp == [op |-> "none", ret |-> Good]

Inputs ==
    {[kind |-> k, content |-> t, cap |-> Len(t)] : k \in MemoryKinds, t \in Texts}
    \cup
    {[kind |-> "stream", content |-> t, cap |-> c] : t \in Texts, c \in 0..MaxCap}

Init ==
    /\ data \in Inputs
    /\ cur = NoCursor
    /\ checkpoint = 0
    /\ last = NoOp
    /\ res = NoResult
    /\ call = NoCall
    /\ args = <<>>

Holding == cur # NoCursor /\ res = NoResult

\* auto w = detail::wrap(data)
Wrap ==
    /\ cur = NoCursor /\ res = NoResult
    /\ cur' = wrap_range(data)
    /\ checkpoint' = 0
    /\ last' = [op |-> "wrap", ret |-> Good]
    /\ UNCHANGED <<data, res, call, args>>

\* w.advance(n), over characters that are there
Advance ==
    /\ Holding
    /\ \E n \in 1..MaxLen :
        /\ cur.m_begin + n <= End(cur)
        /\ cur' = advance(cur, n)
        /\ last' = [op |-> "advance", ret |-> Good]
    /\ UNCHANGED <<data, checkpoint, res, call, args>>

\* the iterators a caller hands to advance_to: from the current position on
AdvanceToTargets(c) == c.m_begin..End(c)

\* w.advance_to(it), on a sized range
AdvanceTo ==
    /\ Holding
    /\ sized_range(cur.base)
    /\ \E it \in AdvanceToTargets(cur) :
        /\ cur' = advance_to(cur, it)
        /\ last' = [op |-> "advance_to", ret |-> Good]
    /\ UNCHANGED <<data, checkpoint, res, call, args>>

\* w.set_rollback_point()
SetRollbackPoint ==
    /\ Holding
    /\ cur' = set_rollback_point(cur)
    /\ checkpoint' = cur.m_begin
    /\ last' = [op |-> "set_rollback_point", ret |-> Good]
    /\ UNCHANGED <<data, res, call, args>>

\* auto e = w.reset_to_rollback_point()
ResetToRollbackPoint ==
    /\ Holding
    /\ LET r == reset_to_rollback_point(cur)
       IN  /\ cur' = r.range
           /\ last' = [op |-> "reset", ret |-> r.err]
    /\ UNCHANGED <<data, checkpoint, res, call, args>>

\* auto w2 = w.rewrap<R>(), R the wrapped type with or without a reference;
\* the caller goes on with w2
Rewrap ==
    /\ Holding
    /\ \E toRef \in BOOLEAN :
        LET r == rewrap(cur, cur.base, toRef)
        IN  /\ cur' = r
            /\ checkpoint' = r.m_begin
            /\ last' = [op |-> "rewrap", ret |-> Good]
    /\ UNCHANGED <<data, res, call, args>>

\* what a call of the entry point op leaves behind, r being what it computed
Returned(op, tag, wrapped, n, r) ==
    /\ res' = r.result
    /\ call' = [op |-> op, tag |-> tag, input |-> wrapped, ctx |-> r.ctx,
                nargs |-> n, failed |-> r.failed]
    /\ args' = r.vals
    /\ last' = NoOp
    /\ UNCHANGED <<data, cur, checkpoint>>

\* what a call leaves behind: the call as made, and what it returned
ReturnedFrom(made, r) ==
    /\ res' = r.result
    /\ call' = made @@ [ctx |-> r.ctx, failed |-> r.failed]
    /\ args' = r.vals
    /\ last' = NoOp
    /\ UNCHANGED <<data, cur, checkpoint>>

\* what a call of scan leaves behind
Called(tag, wrapped, n) ==
    Returned("scan", tag, wrapped, n,
             scan(tag, wrapped, DefaultFormat(n), Fresh(n)))

\* scan(data, "{} ... {}", a1, ..., an), data passed as pass says
ScanInput ==
    /\ cur = NoCursor /\ res = NoResult
    /\ data.kind \in MemoryKinds
    /\ \E pass \in Passes, n \in 1..MaxArgs :
        /\ data.kind = "char_array" => pass \in RefPasses
        /\ Called(RangeTag(IF data.kind = "char_array" THEN "array" ELSE "range",
                           pass, data.kind, FALSE),
                  wrap_range(data), n)

\* scan(w, "{} ... {}", a1, ..., an), the cursor passed as pass says
ScanCursor ==
    /\ Holding
    /\ data.kind \in MemoryKinds
    /\ \E pass \in Passes, n \in 1..MaxArgs :
        Called(RangeTag("wrapper", pass, cur.base, cur.isref),
               wrap_wrapper(cur), n)

\* the range_tag of data passed as pass says
InputTag(pass) ==
    RangeTag(IF data.kind = "char_array" THEN "array" ELSE "range",
             pass, data.kind, FALSE)

\* data can be passed as pass says (an array is passed by reference)
CanPass(pass) ==
    /\ cur = NoCursor /\ res = NoResult
    /\ data.kind \in MemoryKinds
    /\ data.kind = "char_array" => pass \in RefPasses

\* scan_default(data, a1, ..., an)
ScanDefault ==
    \E pass \in Passes, n \in 1..MaxArgs :
        /\ CanPass(pass)
        /\ Returned("scan_default", InputTag(pass), wrap_range(data), n,
                    scan_default(InputTag(pass), wrap_range(data), n, Fresh(n)))

\* auto ret = scan_value<int>(data)
ScanValue ==
    \E pass \in Passes :
        /\ CanPass(pass)
        /\ Returned("scan_value", InputTag(pass), wrap_range(data), 1,
                    scan_value(InputTag(pass), wrap_range(data)))

(***************************************************************************)
(* The locale functions as a state machine of their own.                   *)
(*   data   the input: a buffer and a base, or a unit and the width of     *)
(*          CharT                                                          *)
(*   call   the call made: for read_num the target type, the build, what   *)
(*          operator>> did and the output value before the call; for a     *)
(*          classification the predicate                                   *)
(*   res    what the call returned                                         *)
(*   args   the output value after read_num                                *)
(***************************************************************************)
NumTexts ==
    {Decimal(n) : n \in (0 - Pow2(MaxBits) - 1)..(Pow2(MaxBits) + 1)}
    \cup {<<>>, <<"a">>, <<"-">>, <<"1", "a">>}

Bases == {8, 10, 16}

NumInputs ==
    {[kind |-> "buf", buf |-> t, base |-> b] : t \in NumTexts, b \in Bases}

\* spans of one character: ch.size() >= 1 bytes, or one wchar_t
UnitInputs ==
    {[kind |-> "unit", wide |-> FALSE, unit |-> u] :
        u \in {<<a>> : a \in Ascii}
              \cup {<<"L", "C">>, <<"L">>, <<"C">>, <<"L", "a">>, <<"C", "C">>}}
    \cup {[kind |-> "unit", wide |-> TRUE, unit |-> <<w>>] : w \in WideChars}

InitLocale ==
    /\ data \in NumInputs \cup UnitInputs
    /\ cur = NoCursor
    /\ checkpoint = 0
    /\ last = NoOp
    /\ res = NoResult
    /\ call = NoCall
    /\ args = <<>>

\* auto ret = loc.read_num(val, buf, base)
ReadNum ==
    /\ res = NoResult /\ data.kind = "buf"
    /\ \E T \in IntTypes, has_exceptions \in BOOLEAN, val \in 0..1 :
        \E o \in istream_extract(data.buf, data.base, T) :
            LET r == do_read_num(val, T, o, has_exceptions)
            IN  /\ res' = r.ret
                /\ args' = <<r.val>>
                /\ call' = [op |-> "read_num", T |-> T, o |-> o,
                            exceptions |-> has_exceptions, val |-> val,
                            nargs |-> 1]
    /\ UNCHANGED <<data, cur, checkpoint, last>>

\* bool b = loc.is_f(ch), ch a span
Classify ==
    /\ res = NoResult /\ data.kind = "unit"
    /\ \E f \in Predicates :
        /\ res' = is_f(f, data.wide, data.unit)
        /\ call' = [op |-> "is", f |-> f, nargs |-> 0]
    /\ UNCHANGED <<data, cur, checkpoint, last, args>>

NextLocale ==
    \/ ReadNum
    \/ Classify

SpecLocale == InitLocale /\ [][NextLocale]_vars

\* the delimiters a caller asks for
Delimiters == {" ", "a"}

\* auto ret = getline(data, view, until): args is the view after the call
GetLine ==
    \E pass \in Passes, until \in Delimiters :
        LET r == getline(InputTag(pass), wrap_range(data), NoView, until)
        IN  /\ CanPass(pass)
            /\ res' = r.result
            /\ call' = [op |-> "getline", tag |-> InputTag(pass),
                        input |-> wrap_range(data), ctx |-> r.ctx,
                        nargs |-> 1, failed |-> 0, until |-> until]
            /\ args' = r.vals
            /\ last' = NoOp
            /\ UNCHANGED <<data, cur, checkpoint>>

\* auto ret = ignore_until(data, until)
IgnoreUntil ==
    \E pass \in Passes, until \in Delimiters :
        LET r == ignore_until(InputTag(pass), wrap_range(data), until)
        IN  /\ CanPass(pass)
            /\ res' = r.result
            /\ call' = [op |-> "ignore_until", tag |-> InputTag(pass),
                        input |-> wrap_range(data), ctx |-> r.ctx,
                        nargs |-> 0, failed |-> 0, until |-> until]
            /\ args' = r.vals
            /\ last' = NoOp
            /\ UNCHANGED <<data, cur, checkpoint>>

\* auto ret = ignore_until_n(data, n, until)
IgnoreUntilN ==
    \E pass \in Passes, until \in Delimiters, n \in 0..MaxLen :
        LET r == ignore_until_n(InputTag(pass), wrap_range(data), n, until)
        IN  /\ CanPass(pass)
            /\ res' = r.result
            /\ call' = [op |-> "ignore_until_n", tag |-> InputTag(pass),
                        input |-> wrap_range(data), ctx |-> r.ctx,
                        nargs |-> 0, failed |-> 0, until |-> until, n |-> n]
            /\ args' = r.vals
            /\ last' = NoOp
            /\ UNCHANGED <<data, cur, checkpoint>>

\* the separators a caller asks for
Separators == {NoSeparator} \cup Delimiters

\* the containers a caller passes: empty or holding an element, with room
\* for MaxSize elements at most
Containers ==
    {[elems |-> e, max_size |-> m] :
        e \in {<<>>, <<0>>}, m \in 0..MaxSize} \ {[elems |-> <<0>>, max_size |-> 0]}

\* auto ret = scan_list(data, c, separator): args is c after the call
ScanList ==
    \E pass \in Passes, c \in Containers, separator \in Separators :
        /\ CanPass(pass)
        /\ ReturnedFrom([op |-> "scan_list", tag |-> InputTag(pass),
                         input |-> wrap_range(data), nargs |-> 1,
                         c |-> c, separator |-> separator],
                        scan_list(InputTag(pass), wrap_range(data), c, separator))

Next ==
    \/ Wrap
    \/ Advance
    \/ AdvanceTo
    \/ SetRollbackPoint
    \/ ResetToRollbackPoint
    \/ Rewrap
    \/ ScanInput
    \/ ScanCursor
    \/ ScanDefault
    \/ ScanValue
    \/ GetLine
    \/ IgnoreUntil
    \/ IgnoreUntilN
    \/ ScanList

Spec == Init /\ [][Next]_vars

(***************************************************************************)
(* The cursor alone: a caller wraps its input and then advances, jumps,    *)
(* sets and resets the rollback point, copies and moves, and stops using a *)
(* cursor whose reset failed.                                              *)
(***************************************************************************)
Usable == Holding /\ last.ret = Good

\* w.advance_to(it), it before the current position
AdvanceToBack ==
    /\ sized_range(cur.base)
    /\ \E it \in 0..(cur.m_begin - 1) :
        /\ cur' = advance_to(cur, it)
        /\ last' = [op |-> "advance_to_back", ret |-> Good]
    /\ UNCHANGED <<data, checkpoint, res, call, args>>

\* range_wrapper w2(w); the caller goes on with w2
Copy ==
    /\ cur' = range_wrapper_copy(cur)
    /\ last' = [op |-> "copy", ret |-> Good]
    /\ UNCHANGED <<data, checkpoint, res, call, args>>

\* range_wrapper w2(std::move(w)); the caller goes on with w2
Move ==
    /\ cur' = range_wrapper_move(cur)
    /\ last' = [op |-> "move", ret |-> Good]
    /\ UNCHANGED <<data, checkpoint, res, call, args>>

\* the cursors w2 that can be assigned to: over the same input, at any
\* position, with nothing or everything consumed since the rollback point
AssignTargets(d) ==
    {advance(wrap_range(d), k) : k \in 0..Len(d.content)}

\* w2 = w; the caller goes on with w2
CopyAssign ==
    /\ \E this \in AssignTargets(data) :
        cur' = range_wrapper_copy_assign(this, cur)
    /\ last' = [op |-> "copy_assign", ret |-> Good]
    /\ UNCHANGED <<data, checkpoint, res, call, args>>

\* w2 = std::move(w); the caller goes on with w2
MoveAssign ==
    /\ \E this \in AssignTargets(data) :
        cur' = range_wrapper_move_assign(this, cur)
    /\ last' = [op |-> "move_assign", ret |-> Good]
    /\ UNCHANGED <<data, checkpoint, res, call, args>>

NextCursor ==
    \/ Wrap
    \/ Usable /\ Advance
    \/ Usable /\ AdvanceTo
    \/ Usable /\ AdvanceToBack
    \/ Usable /\ SetRollbackPoint
    \/ Usable /\ ResetToRollbackPoint
    \/ Usable /\ Copy
    \/ Usable /\ Move
    \/ Usable /\ CopyAssign
    \/ Usable /\ MoveAssign

SpecCursor == Init /\ [][NextCursor]_vars

(***************************************************************************)
(* The loops as a state machine of their own: a call is begun, then taken  *)
(* one pass at a time until it returns.                                    *)
(*   data   the input                                                      *)
(*   call   the call made: its range_tag, the cursor wrap(r) gave, the     *)
(*          container as passed, until, separator and n                    *)
(*   cur    ctx.range(), or the cursor the discarding read works on        *)
(*   args   the container                                                  *)
(*   last   the last pass: its error, value (for a discard, the count of   *)
(*          characters discarded) and how many passes were made            *)
(*   res    what the call returned, once it has                            *)
(***************************************************************************)
LoopInputs == {d \in Inputs : d.kind \in {"std_string", "stream"}}

\* the containers a caller passes to a list call: room for one element, or
\* for MaxSize
ListContainers == {[elems |-> <<>>, max_size |-> m] : m \in {1, MaxSize}}

\* the cursors over d a caller can hold: at any position, with the rollback
\* point there or at the start
LoopCursors(d) ==
    UNION {{advance(set_rollback_point(advance(wrap_range(d), p - r)), r) :
               r \in {0, p}} : p \in 0..Len(d.content)}

\* what a caller passes as r: the input itself, or a cursor over it
CallInputs(d) ==
    {[tag |-> RangeTag("range", "lref", d.kind, FALSE),
      wrapped |-> wrap_range(d)]}
    \cup
    {[tag |-> RangeTag("wrapper", "lref", c.base, c.isref),
      wrapped |-> wrap_wrapper(c)] : c \in LoopCursors(d)}

InitLoop ==
    /\ data \in LoopInputs
    /\ cur = NoCursor
    /\ checkpoint = 0
    /\ last = NoOp
    /\ res = NoResult
    /\ call = NoCall
    /\ args = <<>>

NotBegun == cur = NoCursor /\ call = NoCall

Begun(made, in, c) ==
    /\ call' = made @@ [tag |-> in.tag, input |-> in.wrapped, c |-> c,
                        nargs |-> 1, until |-> NoSeparator,
                        separator |-> NoSeparator, n |-> 0]
    /\ cur' = in.wrapped
    /\ args' = <<c>>
    /\ last' = [op |-> "begin", ret |-> Good, value |-> 0, passes |-> 0]
    /\ UNCHANGED <<data, checkpoint, res>>

\* scan_list(r, c, separator) is entered
ListBegin ==
    /\ NotBegun /\ data.kind = "std_string"
    /\ \E in \in CallInputs(data), c \in ListContainers,
          separator \in Separators :
            Begun([op |-> "scan_list", separator |-> separator], in, c)

\* scan_list_until(r, c, until, separator) is entered
ListUntilBegin ==
    /\ NotBegun /\ data.kind = "std_string"
    /\ \E in \in CallInputs(data), c \in ListContainers,
          until \in Delimiters, separator \in Separators :
            Begun([op |-> "scan_list_until", until |-> until,
                   separator |-> separator], in, c)

\* ignore_until(r, until) is entered: the output never fills
IgnoreBegin ==
    /\ NotBegun
    /\ \E in \in CallInputs(data), until \in Delimiters :
            Begun([op |-> "ignore_until", until |-> until,
                   n |-> Len(data.content) + 1], in, NoContainer)

\* ignore_until_n(r, n, until) is entered
IgnoreNBegin ==
    /\ NotBegun
    /\ \E in \in CallInputs(data), until \in Delimiters, n \in 0..MaxLen :
            Begun([op |-> "ignore_until_n", until |-> until, n |-> n], in,
                  NoContainer)

Looping(op) == call # NoCall /\ call.op = op /\ res = NoResult

\* a pass b of a list loop; the return statement when it ends the loop
ListStep(b) ==
    /\ cur' = b.range
    /\ args' = <<b.c>>
    /\ last' = [op |-> "pass", ret |-> b.err, value |-> b.value,
                passes |-> last.passes + 1]
    /\ res' = IF b.done THEN wrap_result(b.err, call.tag, b.range)
                        ELSE NoResult
    /\ UNCHANGED <<data, checkpoint, call>>

ListPass ==
    /\ Looping("scan_list")
    /\ \E b \in {scan_list_body(cur, args[1], last.value, call.separator)} :
          ListStep(b)

ListUntilPass ==
    /\ Looping("scan_list_until")
    /\ \E b \in scan_list_until_body(cur, args[1], last.value,
                                     call.until, call.separator) :
          ListStep(b)

\* a pass b of a discard; what ignore_until and ignore_until_n do when it
\* ends the loop
IgnoreStep(b) ==
    /\ cur' = b.range
    /\ last' = [op |-> "pass", ret |-> b.err, value |-> b.value,
                passes |-> last.passes + 1]
    /\ res' = IF b.done
              THEN IgnoreResult(call.tag, [err |-> b.err, range |-> b.range]).result
              ELSE NoResult
    /\ UNCHANGED <<data, checkpoint, call, args>>

IgnorePass ==
    /\ call # NoCall /\ call.op \in {"ignore_until", "ignore_until_n"}
    /\ res = NoResult
    /\ \E b \in {ignore_body(cur, last.value, call.n, call.until)} :
          IgnoreStep(b)

\* a pass through the loop of the call that was entered
Pass ==
    \/ ListPass
    \/ ListUntilPass
    \/ IgnorePass

NextLoop ==
    \/ ListBegin
    \/ ListUntilBegin
    \/ IgnoreBegin
    \/ IgnoreNBegin
    \/ Pass

\* a call that was entered runs: nothing but the loop itself keeps it from
\* its next pass
SpecLoop == InitLoop /\ [][NextLoop]_vars /\ WF_vars(Pass)

(***************************************************************************)
(* basic_custom_locale_ref: who deletes the process-locale copies.         *)
(*   data   the heap: how many std::locale objects operator new has        *)
(*          handed out, how often each was deleted, and whether a deleted  *)
(*          one was read                                                   *)
(*   args   the references of the caller: not yet constructed, live or     *)
(*          destroyed, with m_locale and m_global_locale.  A pointer is 0  *)
(*          (nullptr), CallerLocale, or the number of an allocation        *)
(***************************************************************************)
NullPtr == 0
CallerLocale == 0 - 1

\* the default member initializers
NoRef == [state |-> "none", m_locale |-> NullPtr, m_global_locale |-> NullPtr]
Constructing == [NoRef EXCEPT !.state = "live"]

NoHeap ==
    [kind |-> "heap", allocated |-> 0, used_deleted |-> FALSE,
     deletes |-> [p \in 1..MaxLocales |-> 0]]

Deleted(heap, p) == p > 0 /\ heap.deletes[p] > 0

\* new std::locale{}: the pointer returned
new_locale(heap) == heap.allocated + 1
Allocated(heap) == [heap EXCEPT !.allocated = @ + 1]

\* delete static_cast<std::locale*>(p)
delete_locale(heap, p) ==
    IF p = NullPtr THEN heap ELSE [heap EXCEPT !.deletes[p] = @ + 1]

\* _initialize(): reads the facet of to_locale(*this)
initialize(heap, this) ==
    [heap EXCEPT !.used_deleted = @ \/ Deleted(heap, this.m_locale)]

\* basic_custom_locale_ref()
locale_ref_default(heap) ==
    LET this == [Constructing EXCEPT !.m_global_locale = new_locale(heap)]
    IN  [heap |-> initialize(Allocated(heap), this), this |-> this]

\* basic_custom_locale_ref(const void* locale)
locale_ref_from(heap, locale) ==
    IF locale = NullPtr
    THEN LET this == [Constructing EXCEPT !.m_global_locale = new_locale(heap),
                                          !.m_locale = new_locale(heap)]
         IN  [heap |-> initialize(Allocated(heap), this), this |-> this]
    ELSE LET this == [Constructing EXCEPT !.m_locale = locale]
         IN  [heap |-> initialize(heap, this), this |-> this]

\* the body shared by the move constructor and the move assignment
take_locale(heap, this, o) ==
    LET taken == IF o.m_global_locale # NullPtr
                 THEN [this EXCEPT !.m_global_locale = o.m_global_locale,
                                   !.m_locale = o.m_global_locale]
                 ELSE [this EXCEPT !.m_locale = o.m_locale]
    IN  [heap |-> initialize(heap, taken), this |-> taken,
         o |-> [o EXCEPT !.m_global_locale = NullPtr, !.m_locale = NullPtr]]

\* basic_custom_locale_ref(basic_custom_locale_ref&& o)
locale_ref_move(heap, o) == take_locale(heap, Constructing, o)

\* operator=(basic_custom_locale_ref&& o)
locale_ref_move_assign(heap, this, o) ==
    take_locale(delete_locale(heap, this.m_global_locale), this, o)

\* ~basic_custom_locale_ref()
locale_ref_destroy(heap, this) ==
    [heap |-> delete_locale(heap, this.m_global_locale),
     this |-> [this EXCEPT !.state = "destroyed"]]

LocaleRefs == 1..MaxRefs

InitRef ==
    /\ data = NoHeap
    /\ args = [i \in LocaleRefs |-> NoRef]
    /\ cur = NoCursor
    /\ checkpoint = 0
    /\ last = NoOp
    /\ res = NoResult
    /\ call = NoCall

\* the program has not yet deleted a locale twice or read a deleted one
Defined ==
    /\ ~data.used_deleted
    /\ \A p \in 1..MaxLocales : data.deletes[p] <= 1

Live(i) == args[i].state = "live"

\* a reference that still refers to a locale, as a move hands over
HasLocale(i) ==
    Live(i) /\ (args[i].m_locale # NullPtr \/ args[i].m_global_locale # NullPtr)

Did(op) ==
    /\ last' = [op |-> op, ret |-> Good]
    /\ UNCHANGED <<cur, checkpoint, res, call>>

\* basic_custom_locale_ref<CharT> l;
RefDefault ==
    /\ Defined /\ data.allocated < MaxLocales
    /\ \E i \in LocaleRefs :
        /\ args[i].state = "none"
        /\ LET r == locale_ref_default(data)
           IN  /\ data' = r.heap
               /\ args' = [args EXCEPT ![i] = r.this]
    /\ Did("default")

\* basic_custom_locale_ref<CharT> l{locale}, locale the caller's or null
RefFrom ==
    /\ Defined
    /\ \E i \in LocaleRefs, locale \in {CallerLocale, NullPtr} :
        /\ args[i].state = "none"
        /\ locale = NullPtr => data.allocated < MaxLocales
        /\ LET r == locale_ref_from(data, locale)
           IN  /\ data' = r.heap
               /\ args' = [args EXCEPT ![i] = r.this]
    /\ Did("from")

\* basic_custom_locale_ref<CharT> l{std::move(o)}
RefMove ==
    /\ Defined
    /\ \E i, j \in LocaleRefs :
        /\ args[i].state = "none" /\ HasLocale(j)
        /\ LET r == locale_ref_move(data, args[j])
           IN  /\ data' = r.heap
               /\ args' = [args EXCEPT ![i] = r.this, ![j] = r.o]
    /\ Did("move")

\* l = std::move(o), o another reference
RefMoveAssign ==
    /\ Defined
    /\ \E i, j \in LocaleRefs :
        /\ i # j /\ Live(i) /\ HasLocale(j)
        /\ LET r == locale_ref_move_assign(data, args[i], args[j])
           IN  /\ data' = r.heap
               /\ args' = [args EXCEPT ![i] = r.this, ![j] = r.o]
    /\ Did("move_assign")

\* l goes out of scope
RefDestroy ==
    /\ Defined
    /\ \E i \in LocaleRefs :
        /\ Live(i)
        /\ LET r == locale_ref_destroy(data, args[i])
           IN  /\ data' = r.heap
               /\ args' = [args EXCEPT ![i] = r.this]
    /\ Did("destroy")

NextRef ==
    \/ RefDefault
    \/ RefFrom
    \/ RefMove
    \/ RefMoveAssign
    \/ RefDestroy

SpecRef == InitRef /\ [][NextRef]_vars

(***************************************************************************)
(* Chained scanning: auto result = make_result(data); then                 *)
(* result = scan(result.range(), "{} ... {}", a...) over and over.         *)
(*   data   the caller's input                                             *)
(*   res    result                                                         *)
(*   args   the values of the last scan                                    *)
(*   last   the last statement and the error it left in result             *)
(***************************************************************************)
\* make_result(r)
make_result(tag, d) == wrap_result(Good, tag, wrap_range(d))

\* an assignment that takes the error and leaves the range
result_assign_keep_range(this, other) == [this EXCEPT !.err = other.err]
\* non_reconstructed_scan_result::operator=(reconstructed_scan_result&&),
\* and the implicit move assignment of a result of the same type:
\* set_base(other); m_range = std::move(other).range()
result_assign(this, other) ==
    [this EXCEPT !.err = other.err,
                 !.range = range_wrapper_move_assign(
                               this.range, range_wrapper_move(other.range))]

\* the range_tag of result.range(), an lvalue
ResultTag(r) == RangeTag("wrapper", "lref", r.range.base, r.range.isref)

InitChain ==
    /\ data \in {d \in Inputs : d.kind \in MemoryKinds}
    /\ cur = NoCursor
    /\ checkpoint = 0
    /\ last = NoOp
    /\ res = NoResult
    /\ call = NoCall
    /\ args = <<>>

\* auto result = make_result(data), data an lvalue
MakeResult ==
    /\ res = NoResult
    /\ \E pass \in RefPasses :
        res' = make_result(InputTag(pass), data)
    /\ last' = [op |-> "make_result", ret |-> Good]
    /\ UNCHANGED <<data, cur, checkpoint, call, args>>

\* what the statement leaves behind, r being what scan computed
ChainStepped(r) ==
    /\ r.result.range.base = res.range.base
    /\ r.result.range.isref = res.range.isref
    /\ res' = result_assign(res, r.result)
    /\ args' = r.vals
    /\ last' = [op |-> "scan", ret |-> r.result.err]
    /\ UNCHANGED <<data, cur, checkpoint, call>>

\* result = scan(result.range(), "{} ... {}", a1, ..., an)
ChainScan ==
    /\ res # NoResult
    /\ \E n \in 1..MaxArgs :
        ChainStepped(scan(ResultTag(res), wrap_wrapper(res.range),
                          DefaultFormat(n), Fresh(n)))

NextChain ==
    \/ MakeResult
    \/ ChainScan

SpecChain == InitChain /\ [][NextChain]_vars

(***************************************************************************)
(* Properties of the cursor.                                               *)
(***************************************************************************)
\* the consumed count of c is what was advanced since the rollback point
CountsFromCheckpoint(c) == c.m_begin - c.m_read = checkpoint

\* how many times the source of c can step back from where it is
StepsBack(c) == c.m_begin - Max(0, c.hi - c.cap)

\* what reset_to_rollback_point promises when it succeeds
Restored(c) == c.m_begin = checkpoint /\ c.m_read = 0

\* C1, as stated: for a cursor of any source kind that was advanced by k
\* since the last set_rollback_point, reset_to_rollback_point returns no
\* error, puts the position back to the rollback point and leaves the
\* consumed count at 0.
C1_reset_restores_any_source ==
    [][(ResetToRollbackPoint /\ CountsFromCheckpoint(cur))
         => (last'.ret = Good /\ Restored(cur'))]_vars

\* C1, amended: the same, for a cursor whose source can step back over the
\* k consumed positions.
C1_reset_restores ==
    [][(ResetToRollbackPoint /\ CountsFromCheckpoint(cur)
            /\ cur.m_read <= StepsBack(cur))
         => (last'.ret = Good /\ Restored(cur'))]_vars

\* a buffered source was read ahead and reset has stepped it back
C1_witness ==
    /\ last.op = "reset" /\ last.ret = Good
    /\ Buffered(cur.base) /\ cur.m_begin < cur.hi
    /\ Restored(cur)

\* C2: when the cursor was advanced by more than its source can step back
\* over, reset_to_rollback_point returns unrecoverable_source_error at the
\* first backward step that yields the end sentinel (the steps before it were
\* taken, the count of the remaining ones is left); and it returns success
\* only after stepping back the full consumed count.
C2_reset_fails_at_sentinel ==
    [][ResetToRollbackPoint
         => LET k == cur.m_read
                s == StepsBack(cur)
            IN  /\ k > s =>
                     /\ last'.ret = UnrecoverableSourceError
                     /\ cur'.m_begin = End(cur)
                     /\ cur'.m_read = k - s
                /\ last'.ret = Good =>
                     /\ cur'.m_begin = cur.m_begin - k
                     /\ cur'.m_read = 0]_vars

\* reset has failed on a source that could not step back far enough
C2_witness ==
    /\ last.op = "reset" /\ last.ret = UnrecoverableSourceError
    /\ cur.m_begin = End(cur) /\ cur.m_read > 0
    /\ cur.hi - cur.cap > checkpoint

\* C3: rewrap<R>() with R the wrapped type (modulo const and reference)
\* keeps what can be read: from every position of the original cursor, the
\* characters readable from the rewrapped cursor up to its end are those
\* readable from the original.
C3_rewrap_same_preserves ==
    [][Rewrap => (/\ Remaining(cur') = Remaining(cur)
                   /\ cur'.base = cur.base
                   /\ cur'.m_read = 0)]_vars

\* a cursor was rewrapped in the middle of its input
C3_witness ==
    /\ last.op = "rewrap"
    /\ cur.m_begin > 0 /\ Remaining(cur) # <<>>

(***************************************************************************)
(* Properties of the result of a scan call.                                *)
(***************************************************************************)
ScanDone == res # NoResult

\* the result hands on the cursor vscan left, as it is
Unchanged == res.range = call.ctx /\ res.copied = 0

\* C4, as stated: when the input of a scan call is a wrapped cursor, passed
\* by lvalue reference, const reference or rvalue, whether it holds its range
\* by value or by reference, the result is a reconstructed result holding the
\* post-scan cursor unchanged: same wrapped type, same position, no rewrap,
\* no copy of content.
C4_wrapper_passes_through_any ==
    (ScanDone /\ call.tag.cat = "wrapper")
        => (res.variant = "reconstructed" /\ Unchanged)

\* C4, amended: that holds for a cursor that holds its range by value.  A
\* cursor that holds its range by reference is rewrapped to the value type:
\* the result is reconstructed, at the same position, holds the range by
\* value, and an owning range's characters are copied.
C4_wrapper_passes_through ==
    (ScanDone /\ call.tag.cat = "wrapper")
        => /\ res.variant = "reconstructed"
           /\ ~call.tag.wref =>
                /\ Unchanged
                /\ res.overload \in {"wrapper_lref", "wrapper_clref", "wrapper_value"}
           /\ call.tag.wref =>
                /\ ~res.range.isref
                /\ res.range.base = call.ctx.base
                /\ Remaining(res.range) = Remaining(call.ctx)
                /\ OwnsChars(call.ctx.base) => res.copied = Len(call.ctx.rng)

\* an owning cursor was scanned from and handed on
C4_witness ==
    /\ ScanDone /\ call.tag.cat = "wrapper" /\ ~call.tag.wref
    /\ OwnsChars(call.ctx.base)
    /\ call.ctx.m_begin > call.input.m_begin
    /\ Unchanged

\* C5: when the caller passes a container by reference and the cursor does
\* not hold its range by reference, the result is non-reconstructed: its
\* leftover is the post-scan cursor itself, over the caller's storage, at the
\* post-scan position, and no character is copied.
C5_by_reference_non_reconstructed ==
    (ScanDone /\ call.tag.cat = "range" /\ call.tag.pass \in RefPasses
        /\ ~call.ctx.isref)
        => /\ res.variant = "non_reconstructed"
           /\ Unchanged
           /\ res.range.alias
           /\ res.range.rng = data.content

\* a string passed by reference was scanned from
C5_witness ==
    /\ ScanDone /\ call.tag.cat = "range" /\ call.tag.pass \in RefPasses
    /\ ~call.ctx.isref
    /\ res.variant = "non_reconstructed"
    /\ res.range.m_begin > 0 /\ Remaining(res.range) # <<>>

\* C6: when the caller passes the input by value and the cursor does not
\* hold its range by reference, the result is reconstructed by rewrapping the
\* post-scan cursor to the caller's value type, and what can be read from the
\* leftover is the unconsumed suffix [position, end) of the input.
C6_by_value_rewraps ==
    (ScanDone /\ call.tag.cat = "range" /\ call.tag.pass = "value"
        /\ ~call.ctx.isref)
        => /\ res.variant = "reconstructed"
           /\ res.overload = "value_nonref"
           /\ res.range.base = call.tag.base /\ ~res.range.isref
           /\ Remaining(res.range) = Suffix(data.content, call.ctx.m_begin)

\* a string passed by value was scanned from and something is left
C6_witness ==
    /\ ScanDone /\ call.tag.cat = "range" /\ call.tag.pass = "value"
    /\ ~call.ctx.isref
    /\ call.ctx.m_begin > 0
    /\ Remaining(res.range) # <<>>
    /\ res.range.base = "std_string"

\* the six cases of the dispatch
DispatchCase(o) ==
    IF o \in {"wrapper_lref", "wrapper_clref", "wrapper_value"}
    THEN "wrapper" ELSE o

\* the result variant as a function of how the input was passed and of
\* whether the cursor holds its range by reference
ExpectedVariant(cat, pass, isref) ==
    IF cat = "range" /\ pass \in RefPasses /\ ~isref
    THEN "non_reconstructed" ELSE "reconstructed"

\* C7: the dispatch is a total, deterministic function of how the input was
\* passed and of whether the cursor holds its range by reference: exactly one
\* case is selected, it is the matching case of highest priority (an array
\* passed by reference gives a reconstructed result over a view), and the
\* result variant does not depend on the content or on how much was consumed.
C7_dispatch_total_deterministic ==
    ScanDone
        => /\ Cardinality({DispatchCase(o) : o \in BestOverloads(call.tag, call.ctx)}) = 1
           /\ res.overload \in ViableSet(call.tag, call.ctx)
           /\ \A o \in ViableSet(call.tag, call.ctx) :
                Priority(o) <= Priority(res.overload)
           /\ call.tag.cat = "array" =>
                /\ res.overload = "literal"
                /\ res.range.base = "string_view"
           /\ res.variant = ExpectedVariant(call.tag.cat, call.tag.pass,
                                            call.ctx.isref)

\* an array passed by reference: three cases match, the literal one wins
C7_witness ==
    /\ ScanDone /\ call.tag.cat = "array"
    /\ Cardinality(ViableSet(call.tag, call.ctx)) = 3
    /\ res.overload = "literal" /\ res.variant = "reconstructed"

(***************************************************************************)
(* Properties of scan.  The input of a call is what can be read from the   *)
(* cursor wrap(r) gave.                                                    *)
(***************************************************************************)
\* a call of scan or scan_default has returned
Scanned == ScanDone /\ call.op \in {"scan", "scan_default"}

\* the offset after k integer texts, each after its leading whitespace,
\* from offset i on
RECURSIVE AfterInts(_, _, _)
AfterInts(s, i, k) ==
    IF k = 0 THEN i
    ELSE LET w == RunLength(s, i, Spaces)
             d == RunLength(s, i + w, Digits)
         IN  AfterInts(s, i + w + d, k - 1)

\* the value of the j-th integer text from offset i on
IntValue(s, i, j) ==
    LET p == AfterInts(s, i, j - 1)
        w == RunLength(s, p, Spaces)
        d == RunLength(s, p + w, Digits)
    IN  ParseDec(SubSeq(s, p + w + 1, p + w + d))

\* the error of an integer argument that cannot be scanned at offset p
FailureAt(s, p) ==
    IF p + RunLength(s, p, Spaces) = Len(s)
    THEN EndOfRange ELSE InvalidScannedValue

\* s is integer texts separated by whitespace: their values, in order
RECURSIVE IntList(_)
IntList(s) ==
    LET d == RunLength(s, 0, Digits)
        w == RunLength(s, d, Spaces)
        v == ParseDec(SubSeq(s, 1, d))
    IN  IF d = 0 THEN [ok |-> FALSE, vals |-> <<>>]
        ELSE IF d = Len(s) THEN [ok |-> TRUE, vals |-> <<v>>]
        ELSE IF w = 0 THEN [ok |-> FALSE, vals |-> <<>>]
        ELSE LET rest == IntList(Suffix(s, d + w))
             IN  [ok |-> rest.ok, vals |-> <<v>> \o rest.vals]

\* C8: scan takes the arguments in placeholder order and stops at the first
\* one that fails: the arguments before it hold their values, the failing
\* one and those after it are as they were, the result carries the failing
\* argument's error, and the leftover starts after what the arguments before
\* it consumed, not at the start of the call.
C8_stops_at_first_failure ==
    (Scanned /\ call.failed > 0)
        => LET k == call.failed
               s == call.input.rng
               i0 == call.input.m_begin
               p == AfterInts(s, i0, k - 1)
           IN  /\ res.err = FailureAt(s, p)
               /\ \A j \in 1..(k - 1) : args[j] = IntValue(s, i0, j)
               /\ \A j \in k..call.nargs : args[j] = 0
               /\ k > 1 => /\ Remaining(res.range) = Suffix(s, p)
                           /\ p > i0

\* the second of two arguments failed on a text that is not a number
C8_witness ==
    /\ Scanned /\ call.nargs = 2 /\ call.failed = 2
    /\ res.err = InvalidScannedValue
    /\ args[1] > 0 /\ args[2] = 0
    /\ Len(Remaining(res.range)) < Len(Remaining(call.input))

\* C9: scanning an input of N whitespace-separated integer texts with N
\* integer placeholders stores the N values in order, reports success and
\* leaves nothing unconsumed in the leftover.
C9_all_integers_scanned ==
    (Scanned /\ IntList(Remaining(call.input)).ok
        /\ Len(IntList(Remaining(call.input)).vals) = call.nargs)
        => /\ res.err = Good /\ call.failed = 0
           /\ args = IntList(Remaining(call.input)).vals
           /\ Remaining(res.range) = <<>>

\* two different integers were scanned into two arguments
C9_witness ==
    /\ Scanned /\ call.nargs = 2
    /\ IntList(Remaining(call.input)).ok
    /\ res.err = Good
    /\ args[1] # args[2]
    /\ Remaining(res.range) = <<>>

\* the next token of the input of c is not a number
NextTokenNotNumeric(c) ==
    LET p == c.m_begin + RunLength(c.rng, c.m_begin, Spaces)
    IN  p < Len(c.rng) /\ c.rng[p + 1] \notin Digits

\* C10, as stated: scanning an input whose next token is not numeric into an
\* integer argument fails with invalid_scanned_value, and the leftover of
\* the result begins where the input began before the call.
C10_failed_scan_keeps_position ==
    (Scanned /\ NextTokenNotNumeric(call.input))
        => /\ res.err = InvalidScannedValue /\ call.failed = 1
           /\ Remaining(res.range) = Remaining(call.input)

C12_scan_value_is_single_scan ==
    (ScanDone /\ call.op = "scan_value")
        => LET r == scan(call.tag, call.input, DefaultFormat(1), Fresh(1))
           IN  /\ res.err = r.result.err
               /\ r.result.err = Good => args = <<r.vals[1]>>
               /\ r.result.err # Good => args = <<>>
               /\ res.range = r.result.range
               /\ res.variant = r.result.variant

\* scan_value failed and holds no value
C12_witness ==
    /\ ScanDone /\ call.op = "scan_value"
    /\ res.err = InvalidScannedValue /\ args = <<>>
    /\ Remaining(res.range) # <<>>

(***************************************************************************)
(* Properties of the locale functions (under SpecLocale).                  *)
(***************************************************************************)
NumDone == res # NoResult /\ call.op = "read_num"

\* the buffer starts with a number in the base
HasNumber(buf, base) ==
    RunLength(buf, IF Len(buf) > 0 /\ buf[1] = "-" THEN 1 ELSE 0,
              ValidDigits(base)) > 0

\* C13, as stated: conversion into a w-bit signed integer type succeeds on
\* the text of the type's maximum, fails with value_out_of_range classified
\* overflow on the text of maximum + 1 and underflow on the text of
\* minimum - 1; a failed parse is classified overflow when the parse
\* saturated at the maximum, underflow when it saturated at the minimum
\* (zero for unsigned), and invalid_scanned_value otherwise.
C13_range_classification ==
    (NumDone /\ call.exceptions)
        => LET T == call.T
               max == numeric_limits_max(T)
               min == numeric_limits_min(T)
               number == HasNumber(data.buf, data.base)
               Class(c) == res.err = ValueOutOfRange /\ res.class = c
           IN  /\ (T.signed /\ data.base = 10 /\ data.buf = Decimal(max))
                    => (res.err = Good /\ args = <<max>>)
               /\ (T.signed /\ data.base = 10 /\ data.buf = Decimal(max + 1))
                    => Class("overflow")
               /\ (T.signed /\ data.base = 10 /\ data.buf = Decimal(min - 1))
                    => Class("underflow")
               /\ res.err # Good =>
                    /\ (number /\ call.o.tmp = max) => Class("overflow")
                    /\ (number /\ call.o.tmp = min) => Class("underflow")
                    /\ ~number => res.err = InvalidScannedValue

\* C14: in a build without exceptions every localized number read returns
\* the error that says so, parses nothing and leaves the output value as it
\* was, whatever the buffer and the base.
C14_fails_closed_without_exceptions ==
    (NumDone /\ ~call.exceptions)
        => /\ res.err = ExceptionsRequired
           /\ res.pos = 0
           /\ args = <<call.val>>

\* a buffer that would have parsed was refused
C14_witness ==
    /\ NumDone /\ ~call.exceptions
    /\ ~call.o.fail /\ call.o.tmp > 1
    /\ res.err = ExceptionsRequired
    /\ call.val = 1 /\ args = <<1>>

\* C15, as stated: for a multi-byte unit that cannot be decoded to a single
\* wide code unit, every classification predicate reports an
\* invalid-encoding failure, never the plain answer false.
C15_undecodable_unit_is_an_error ==
    (res # NoResult /\ call.op = "is" /\ ~data.wide
        /\ codecvt_in(data.unit).result # "ok")
        => (res.err = InvalidEncoding /\ ~(res.err = Good /\ res.value = FALSE))

\* C27: for every integral target type, signed and unsigned, a failed
\* localized read of text that is not a number is classified
\* invalid_scanned_value; value_out_of_range is reported only when the text
\* holds a number.
C27_not_a_number_is_invalid ==
    (NumDone /\ call.exceptions /\ res.err # Good)
        => /\ ~HasNumber(data.buf, data.base) => res.err = InvalidScannedValue
           /\ res.err = ValueOutOfRange => HasNumber(data.buf, data.base)

(***************************************************************************)
(* Properties of getline with a view target (under Spec).                  *)
(***************************************************************************)
GotLine == ScanDone /\ call.op = "getline"

\* the characters a bound view shows
ViewChars(v) == SubSeq(data.content, v.start + 1, v.start + v.size)

\* how many characters precede the first delimiter of the input
LineLength == RunLength(call.input.rng, call.input.m_begin, Chars \ {call.until})

\* the view is bound to the line, nothing is copied, and the leftover starts
\* after the delimiter (or is empty when there is none)
LineBound ==
    LET i0 == call.input.m_begin
        found == i0 + LineLength < Len(call.input.rng)
    IN  /\ args[1] = [bound |-> TRUE, start |-> i0, size |-> LineLength]
        /\ call.until \notin {ViewChars(args[1])[i] : i \in 1..LineLength}
        /\ call.ctx.rng = data.content
        /\ Remaining(res.range) =
              Suffix(data.content, i0 + LineLength + (IF found THEN 1 ELSE 0))
        /\ found => data.content[i0 + LineLength + 1] = call.until

C17_getline_view_needs_contiguous ==
    (GotLine /\ ~is_contiguous(call.input.base))
        => /\ res.err = InvalidOperation
           /\ args[1] = NoView
           /\ Remaining(res.range) = Remaining(call.input)

\* a non-contiguous source with a line in it
C17_witness ==
    /\ GotLine /\ ~is_contiguous(call.input.base)
    /\ LineLength > 0 /\ LineLength < Len(data.content)
    /\ res.err = InvalidOperation

(***************************************************************************)
(* Properties of ignore_until and ignore_until_n (under Spec).             *)
(***************************************************************************)
Ignored == ScanDone /\ call.op \in {"ignore_until", "ignore_until_n"}

\* C18: after ignore_until or ignore_until_n returns success, the cursor in
\* the result has its rollback point right after the discarded span: its
\* count of characters consumed since the rollback point is 0, and a
\* following reset_to_rollback_point leaves the position where it is.
C18_ignore_sets_rollback_point ==
    (Ignored /\ res.err = Good)
        => /\ res.range.m_read = 0
           /\ reset_to_rollback_point(res.range).range.m_begin
                  = res.range.m_begin

(***************************************************************************)
(* Properties of scan_list (under Spec).                                   *)
(***************************************************************************)
ListDone == ScanDone /\ call.op = "scan_list"

\* how many elements the call pushed
Pushed == Len(args[1].elems) - Len(call.c.elems)

\* where the digits of the k-th element start and end, from offset i on:
\* each element follows its leading whitespace and, from the second on, one
\* separator character when a separator is set
RECURSIVE ElemStart(_, _, _, _), ElemEnd(_, _, _, _)
ElemStart(s, i, k, separator) ==
    LET p == IF k = 1 THEN i
             ELSE ElemEnd(s, i, k - 1, separator)
                  + (IF separator # NoSeparator THEN 1 ELSE 0)
    IN  p + RunLength(s, p, Spaces)
ElemEnd(s, i, k, separator) ==
    IF k = 0 THEN i
    ELSE LET b == ElemStart(s, i, k, separator)
         IN  b + RunLength(s, b, Digits)

\* the k-th element of the input is a number, after a separator when one is
\* set
IsElem(s, i, k, separator) ==
    /\ ElemStart(s, i, k, separator) < ElemEnd(s, i, k, separator)
    /\ (k > 1 /\ separator # NoSeparator)
           => s[ElemEnd(s, i, k - 1, separator) + 1] = separator

ElemValue(s, i, k, separator) ==
    ParseDec(SubSeq(s, ElemStart(s, i, k, separator) + 1,
                    ElemEnd(s, i, k, separator)))

\* the container holds what it held, then the input's first n elements
HoldsElems(n) ==
    LET s == call.input.rng
        i0 == call.input.m_begin
        n0 == Len(call.c.elems)
    IN  /\ Len(args[1].elems) = n0 + n
        /\ SubSeq(args[1].elems, 1, n0) = call.c.elems
        /\ \A k \in 1..n :
              /\ IsElem(s, i0, k, call.separator)
              /\ args[1].elems[n0 + k] = ElemValue(s, i0, k, call.separator)

\* C19: scan_list stops as soon as the container's size equals its capacity
\* and reports success; it never pushes into a full container, and the
\* elements pushed are the input's values in input order.
C19_scan_list_stops_at_capacity ==
    ListDone
        => /\ Len(args[1].elems) <= call.c.max_size
           /\ Pushed >= 0 /\ HoldsElems(Pushed)
           /\ size_is_max(args[1])
                 => /\ res.err = Good
                    /\ LET e == ElemEnd(call.input.rng, call.input.m_begin,
                                        Pushed, call.separator)
                       IN  res.range.m_begin <= e + 1

\* the container fills up while the input still holds a number
C19_witness ==
    /\ ListDone /\ res.err = Good
    /\ Pushed >= 1 /\ size_is_max(args[1])
    /\ \E k \in 1..Len(Remaining(res.range)) : Remaining(res.range)[k] \in Digits

\* the character after the k-th element is there and is not the separator
NotSeparatorAfter(k) ==
    LET e == ElemEnd(call.input.rng, call.input.m_begin, k, call.separator)
    IN  /\ e < Len(call.input.rng)
        /\ call.input.rng[e + 1] # call.separator

\* C20: in scan_list with a separator set, when the character that follows a
\* scanned element is not the separator, the loop ends, the call reports
\* success, and every element collected so far remains in the container.
C20_missing_separator_ends_list ==
    (ListDone /\ call.separator # NoSeparator)
        => \A k \in 1..Pushed :
              NotSeparatorAfter(k)
                  => /\ k = Pushed
                     /\ res.err = Good
                     /\ HoldsElems(k)

\* an element, a character that is not the separator, another number, and
\* room for it in the container
C20_witness ==
    /\ ListDone /\ call.separator # NoSeparator
    /\ Pushed = 1 /\ NotSeparatorAfter(1)
    /\ ~size_is_max(args[1])
    /\ res.err = Good
    /\ \E k \in 1..Len(call.input.rng) :
          k > ElemEnd(call.input.rng, call.input.m_begin, 1, call.separator) + 1
          /\ call.input.rng[k] \in Digits

(***************************************************************************)
(* Properties of the loops (under SpecLoop).                               *)
(***************************************************************************)
ListOps == {"scan_list", "scan_list_until"}

\* a list call is about to scan a value: it is in its loop with room in the
\* container
ListRunning ==
    /\ call # NoCall /\ call.op \in ListOps
    /\ res = NoResult /\ ~size_is_max(args[1])

ListReturned == call # NoCall /\ call.op \in ListOps /\ res # NoResult

\* where the digits of the value at the cursor start and end
ValueStart(c) == c.m_begin + RunLength(c.rng, c.m_begin, Spaces)
ValueEnd(c) == ValueStart(c) + RunLength(c.rng, ValueStart(c), Digits)

\* the input ends while the next value is scanned
EndsWhileScanning == ValueStart(cur) = End(cur)

\* the input ends where the character after the next value is read
EndsAtSeparator ==
    /\ ValueStart(cur) < ValueEnd(cur) /\ ValueEnd(cur) = End(cur)
    /\ call.op = "scan_list_until" \/ call.separator # NoSeparator

\* the input ends right after the separator that follows the next value
EndsAfterSeparator ==
    /\ call.op = "scan_list_until"
    /\ ValueStart(cur) < ValueEnd(cur) /\ ValueEnd(cur) + 1 = End(cur)
    /\ LET ch == cur.rng[End(cur)]
       IN  /\ ch # call.until
           /\ IF call.separator # NoSeparator
              THEN ch = call.separator ELSE is_space(ch)

\* a pass of a list loop keeps what the container holds
KeepsElems ==
    (ListPass \/ ListUntilPass)
        => SubSeq(args'[1].elems, 1, Len(args[1].elems)) = args[1].elems

\* a pass that meets the end of the input returns success, or leaves the
\* next pass a full container or only whitespace: that pass returns success
EndsInSuccess ==
    (/\ ListPass \/ ListUntilPass
     /\ ListRunning
     /\ EndsWhileScanning \/ EndsAtSeparator \/ EndsAfterSeparator)
        => \/ res' # NoResult /\ res'.err = Good
           \/ /\ res' = NoResult /\ ~EndsWhileScanning
              /\ size_is_max(args'[1]) \/ ValueStart(cur') = End(cur')

\* C21: in scan_list and scan_list_until, reaching the end of the input at
\* any point of the loop (scanning the next value, reading the separator,
\* reading the character after a separator) ends the loop with a success
\* result that keeps the collected elements; end_of_range is never the
\* call's error.
C21_end_of_input_ends_list ==
    /\ [](ListReturned => res.err # EndOfRange)
    /\ [][KeepsElems]_vars
    /\ [][EndsInSuccess]_vars

\* C22: in scan_list_until, when the character following a scanned element
\* equals until, the loop stops and that character is not consumed: the
\* leftover of the result begins at the until character.
C22_until_is_not_consumed ==
    [][(/\ ListUntilPass /\ ~size_is_max(args[1])
        /\ ValueStart(cur) < ValueEnd(cur) /\ ValueEnd(cur) < End(cur)
        /\ cur.rng[ValueEnd(cur) + 1] = call.until)
         => (/\ res' # NoResult /\ res'.err = Good
             /\ Remaining(res'.range) = Suffix(cur.rng, ValueEnd(cur)))]_vars

\* what is left to read is the measure of a loop
Rank == Len(Remaining(cur))

\* a pass that does not end the loop consumes a character or adds an element
MakesProgress ==
    Pass
        => \/ res' # NoResult
           \/ Len(Remaining(cur')) < Rank
           \/ call.op \in ListOps /\ Len(args'[1].elems) > Len(args[1].elems)

\* a pass that does not end the loop leaves less to read, so a call makes at
\* most as many such passes as there are characters
Descends == (Pass /\ res' = NoResult) => Len(Remaining(cur')) < Rank

\* C23: scan_list, scan_list_until, ignore_until and ignore_until_n
\* terminate on every finite input and every cursor state they can be
\* called with: each pass of the loop ends it or makes progress by consuming
\* at least one character or adding one element.
C23_loops_terminate ==
    /\ [][MakesProgress]_vars
    /\ [][Descends]_vars
    /\ [](call # NoCall => /\ Rank \in 0..Len(data.content)
                           /\ last.passes + Rank <= Len(data.content) + 1)

\* a list call that returned after more than one pass, and a discard that
\* went over more than one character
C23_witness ==
    /\ call # NoCall /\ res # NoResult
    /\ \/ call.op = "scan_list_until" /\ Len(args[1].elems) = 2
       \/ call.op = "ignore_until" /\ last.value = 2

(***************************************************************************)
(* Properties of a discard that fails (under SpecLoop).                    *)
(***************************************************************************)
\* ignore_until or ignore_until_n returned after its discarding step failed
DiscardFailed ==
    /\ call # NoCall /\ call.op \in {"ignore_until", "ignore_until_n"}
    /\ res # NoResult /\ last.ret # Good

\* C28: when the discarding step of ignore_until or ignore_until_n fails,
\* the cursor is rolled back to its last rollback point before the result
\* is built, so the leftover of the failed call begins where the discard
\* started; if the rollback itself fails, the error of the call is the
\* rollback's unrecoverable_source_error.
C28_failed_discard_rolls_back ==
    DiscardFailed
        => LET e == reset_to_rollback_point(cur)
           IN  /\ e.err = Good
                    => /\ res.err = last.ret
                       /\ Remaining(res.range) = Remaining(e.range)
                       /\ Remaining(res.range) = Remaining(call.input)
               /\ e.err # Good => res.err = UnrecoverableSourceError

(***************************************************************************)
(* Properties of copies and of the consumed count (under SpecCursor).      *)
(***************************************************************************)
CopiedOrMoved == Copy \/ CopyAssign \/ Move \/ MoveAssign

\* C24: copy-constructing, copy-assigning, move-constructing or
\* move-assigning a cursor yields a cursor whose offset from the start of
\* its source is the source cursor's offset at the time of the operation,
\* and whose consumed count is the source cursor's count.
C24_copy_and_move_keep_offset_and_count ==
    [][(Usable /\ CopiedOrMoved)
         => /\ cur'.m_begin = cur.m_begin
            /\ cur'.m_read = cur.m_read
            /\ Remaining(cur') = Remaining(cur)]_vars

\* a cursor past its rollback point, which is past the start, was assigned
C24_witness ==
    /\ Holding /\ last.op \in {"copy_assign", "move_assign"}
    /\ cur.m_read > 0 /\ cur.m_read < cur.m_begin

\* C25: in every state reachable from a freshly wrapped cursor by advance,
\* advance_to, set_rollback_point, successful reset_to_rollback_point, copy
\* and move, the consumed count is non-negative and is the distance from
\* the last rollback point to the current position.
C25_count_is_distance_from_checkpoint ==
    Usable => /\ cur.m_read >= 0
              /\ cur.m_begin - cur.m_read = checkpoint

(***************************************************************************)
(* Who owns the characters a cursor reads (under Spec).                    *)
(***************************************************************************)
\* a call whose input was the caller's data, not a cursor
CalledOnData == call # NoCall /\ res # NoResult /\ call.tag.cat # "wrapper"

\* the cursor reads storage it does not hold: through a pointer to the
\* range, or through a string_view over the range's characters
NonOwning(c) == c.alias /\ (c.isref \/ c.base = "string_view")

\* the cursor holds the range itself, and with it the characters it reads
Owning(c) == ~c.isref /\ OwnsChars(c.base) /\ (c.rng # <<>> => ~c.alias)

C29_owned_locale_deleted_once ==
    /\ \A p \in 1..MaxLocales : data.deletes[p] <= 1
    /\ ~data.used_deleted
    /\ \A i \in LocaleRefs :
        Live(i) => /\ ~Deleted(data, args[i].m_global_locale)
                   /\ ~Deleted(data, args[i].m_locale)
    /\ \A i, j \in LocaleRefs :
        (i # j /\ Live(i) /\ Live(j) /\ args[i].m_global_locale # NullPtr)
            => args[i].m_global_locale # args[j].m_global_locale
    /\ (\A i \in LocaleRefs : args[i].state = "destroyed")
        => \A p \in 1..data.allocated : data.deletes[p] = 1

(***************************************************************************)
(* Properties of chained scanning (under SpecChain).                       *)
(***************************************************************************)
\* the characters result has left to read
Leftover(r) == Remaining(r.range)

\* s is what is left of t after some of its characters were read
IsSuffix(s, t) == Len(s) <= Len(t) /\ s = Suffix(t, Len(t) - Len(s))

\* a step of the chain that succeeded leaves less to read; no step gives
\* back a character that a step before it consumed; what is read are the
\* caller's characters, which no step changes
ChainAdvances ==
    ChainScan
        => /\ res'.err = Good => Len(Leftover(res')) < Len(Leftover(res))
           /\ IsSuffix(Leftover(res'), Leftover(res))
           /\ IsSuffix(Leftover(res'), data.content)
           /\ data' = data

\* C30: chained scanning through a result object strictly advances the
\* leftover on every successful step, never re-reads characters already
\* consumed, leaves the caller's data unmodified, and on a finite input
\* eventually yields a result whose error is end_of_range.  Every successful
\* step leaves less to read, so a chain over a finite input comes to a step
\* that fails: what it yields then is end_of_range.
C30_chain_reaches_end_of_range ==
    /\ [][ChainAdvances]_vars
    /\ []((res # NoResult /\ res.err # Good) => res.err = EndOfRange)

\* a step of the chain that failed stands behind the arguments it scanned
\* before the one that failed, and where it was when the first one failed:
\* with end_of_range when nothing but whitespace is left, with
\* invalid_scanned_value when what is left does not start a number
ChainFails ==
    (ChainScan /\ res'.err # Good)
        => /\ args'[1] = 0 => Leftover(res') = Leftover(res)
           /\ res'.err = IF RunLength(Leftover(res'), 0, Spaces)
                               = Len(Leftover(res'))
                         THEN EndOfRange ELSE InvalidScannedValue

\* C30 as the code has it: the chain advances as stated while its steps
\* succeed, and a step that fails keeps what its arguments scanned before
\* the failure and nothing else; it fails with end_of_range when only
\* whitespace is left, and with invalid_scanned_value, for good, at text
\* that is not a number.
C30_chain_advances_until_it_fails ==
    /\ [][ChainAdvances]_vars
    /\ [][ChainFails]_vars
    /\ [](res # NoResult /\ res.err = EndOfRange
            => RunLength(Leftover(res), 0, Spaces) = Len(Leftover(res)))

\* the chain scanned two numbers and then, in a step of its own, met the end
C30_witness ==
    /\ res # NoResult /\ last.op = "scan" /\ res.err = EndOfRange
    /\ args = <<0>> /\ Leftover(res) = <<>>
    /\ Len(data.content) = 3
    /\ data.content[1] \in Digits /\ data.content[2] \in Spaces
    /\ data.content[3] \in Digits

=============================================================================
